---- MODULE Spec2Model ----
(***************************************************************************)
(* Price-reference page of verselapp: the preview table, the "ultimo       *)
(* licitado" inputs, the manual-adjust dialog and the override collection. *)
(*                                                                         *)
(* The repository holds several revisions of the page.  The model carries  *)
(* them side by side; the variable `variant` says which revision a         *)
(* behaviour runs:                                                         *)
(*   "precos"  src/app/(auth)/precos/page.tsx                              *)
(*   "root"    src/app/page.tsx                                            *)
(*   "p002"    src/unnamed/part_002                                        *)
(*   "p005"    src/unnamed/part_005                                        *)
(*   "p006"    src/unnamed/part_006                                        *)
(*                                                                         *)
(* Numbers are exact rationals <<n, d>> with d > 0 (JavaScript doubles are *)
(* modelled without rounding); <<0, 0>> is null.  Strings that the code    *)
(* parses, trims or formats are sequences of one-character strings.        *)
(***************************************************************************)
EXTENDS Integers, Sequences, FiniteSets, TLC

----------------------------------------------------------------------------
(* Rational numbers *)

Null == <<0, 0>>

IsNull(x) == x[2] = 0

Abs(n) == IF n < 0 THEN -n ELSE n

RECURSIVE GCD(_, _)
GCD(a, b) == IF b = 0 THEN a ELSE GCD(b, a % b)

\* The reduced fraction n/d (d # 0).
Rat(n, d) ==
  LET g == GCD(Abs(n), Abs(d))
      s == IF d < 0 THEN -1 ELSE 1
  IN  <<(s * n) \div g, (s * d) \div g>>

Num(n) == <<n, 1>>

RAdd(a, b) == Rat(a[1] * b[2] + b[1] * a[2], a[2] * b[2])
RSub(a, b) == Rat(a[1] * b[2] - b[1] * a[2], a[2] * b[2])
RMul(a, b) == Rat(a[1] * b[1], a[2] * b[2])
RDivInt(a, k) == Rat(a[1], a[2] * k)
RLt(a, b) == a[1] * b[2] < b[1] * a[2]
RLe(a, b) == a[1] * b[2] <= b[1] * a[2]

----------------------------------------------------------------------------
(* Strings as sequences of characters *)

Digits == <<"0", "1", "2", "3", "4", "5", "6", "7", "8", "9">>

IsDigit(c) == \E i \in DOMAIN Digits : Digits[i] = c

DigitVal(c) == (CHOOSE i \in DOMAIN Digits : Digits[i] = c) - 1

IsSpace(c) == c = " "

RECURSIVE TrimLeft(_)
TrimLeft(s) ==
  IF s # <<>> /\ IsSpace(Head(s)) THEN TrimLeft(Tail(s)) ELSE s

RECURSIVE TrimRight(_)
TrimRight(s) ==
  IF s # <<>> /\ IsSpace(s[Len(s)])
  THEN TrimRight(SubSeq(s, 1, Len(s) - 1))
  ELSE s

\* String.prototype.trim
Trim(s) == TrimRight(TrimLeft(s))

\* s.replace(/R\$\s?/i, ""): the first "R$" (either case), with one
\* following white-space character if there is one, is removed.
RECURSIVE StripCurrency(_)
StripCurrency(s) ==
  IF Len(s) < 2 THEN s
  ELSE IF s[1] \in {"R", "r"} /\ s[2] = "$"
       THEN IF Len(s) >= 3 /\ IsSpace(s[3])
            THEN SubSeq(s, 4, Len(s))
            ELSE SubSeq(s, 3, Len(s))
       ELSE <<Head(s)>> \o StripCurrency(Tail(s))

\* s.replace(/\./g, "")
RemoveDots(s) == SelectSeq(s, LAMBDA c : c # ".")

\* s.replace(/,/g, ".")
CommasToDots(s) == [i \in DOMAIN s |-> IF s[i] = "," THEN "." ELSE s[i]]

RECURSIVE DigitsValue(_)
DigitsValue(s) ==
  IF s = <<>> THEN 0
  ELSE 10 * DigitsValue(SubSeq(s, 1, Len(s) - 1)) + DigitVal(s[Len(s)])

RECURSIVE Pow10(_)
Pow10(k) == IF k = 0 THEN 1 ELSE 10 * Pow10(k - 1)

AllDigits(s) == \A i \in DOMAIN s : IsDigit(s[i])

\* An unsigned decimal literal: digits, digits "." digits?, or "." digits.
UnsignedValue(s) ==
  LET dots == {i \in DOMAIN s : s[i] = "."}
  IN  IF dots = {}
      THEN IF s # <<>> /\ AllDigits(s) THEN Num(DigitsValue(s)) ELSE Null
      ELSE IF Cardinality(dots) > 1 THEN Null
      ELSE LET p == CHOOSE i \in dots : TRUE
               ip == SubSeq(s, 1, p - 1)
               fp == SubSeq(s, p + 1, Len(s))
           IN  IF AllDigits(ip) /\ AllDigits(fp) /\ Len(ip) + Len(fp) > 0
               THEN Rat(DigitsValue(ip) * Pow10(Len(fp)) + DigitsValue(fp),
                        Pow10(Len(fp)))
               ELSE Null

\* Number(s) followed by Number.isFinite: the value of a decimal literal,
\* null for NaN.  White space around the literal is ignored and the empty
\* string is 0.  The input alphabet of the model has no exponent, radix
\* prefix or "Infinity" (every other letter makes the result NaN).
NumberOf(s) ==
  LET t == Trim(s)
  IN  IF t = <<>> THEN Num(0)
      ELSE IF Head(t) = "-"
           THEN LET u == UnsignedValue(Tail(t))
                IN  IF IsNull(u) THEN Null ELSE Rat(-u[1], u[2])
           ELSE IF Head(t) = "+" THEN UnsignedValue(Tail(t))
           ELSE UnsignedValue(t)

parseBRL(input) ==
  LET s == CommasToDots(RemoveDots(StripCurrency(Trim(input))))
  IN  IF s = <<>> THEN Null ELSE NumberOf(s)

\* Number.prototype.toFixed(k) with "." replaced by ",": the decimal
\* expansion rounded to k places, half away from zero.
RECURSIVE NatToChars(_)
NatToChars(n) ==
  IF n < 10 THEN <<Digits[n + 1]>>
  ELSE NatToChars(n \div 10) \o <<Digits[(n % 10) + 1]>>

RECURSIVE PadLeft(_, _)
PadLeft(s, k) == IF Len(s) >= k THEN s ELSE PadLeft(<<"0">> \o s, k)

toFixedComma(x, k) ==
  LET p == Pow10(k)
      a == Abs(x[1])
      scaled == (2 * a * p + x[2]) \div (2 * x[2])
      ip == NatToChars(scaled \div p)
      fp == PadLeft(NatToChars(scaled % p), k)
      sign == IF x[1] < 0 /\ scaled > 0 THEN <<"-">> ELSE <<>>
  IN  sign \o ip \o <<",">> \o fp

----------------------------------------------------------------------------
(* Numeric aggregators *)

RECURSIVE SumSeq(_)
SumSeq(vals) == IF vals = <<>> THEN Num(0) ELSE RAdd(Head(vals), SumSeq(Tail(vals)))

\* Insert x into the ascending sequence s, after the elements equal to it.
RECURSIVE InsertAsc(_, _)
InsertAsc(s, x) ==
  IF s = <<>> THEN <<x>>
  ELSE IF RLt(x, Head(s)) THEN <<x>> \o s
  ELSE <<Head(s)>> \o InsertAsc(Tail(s), x)

\* [...vals].sort((a, b) => a - b) on numbers
RECURSIVE SortAsc(_)
SortAsc(vals) ==
  IF vals = <<>> THEN <<>>
  ELSE InsertAsc(SortAsc(SubSeq(vals, 1, Len(vals) - 1)), vals[Len(vals)])

\* The list of indices left in the order it has
SortIdx_asIs(s) == s

\* The same sort on a list of integer indices.
RECURSIVE InsertIdx(_, _)
InsertIdx(s, x) ==
  IF s = <<>> THEN <<x>>
  ELSE IF x < Head(s) THEN <<x>> \o s
  ELSE <<Head(s)>> \o InsertIdx(Tail(s), x)

RECURSIVE SortIdx(_)
SortIdx(s) ==
  IF s = <<>> THEN <<>>
  ELSE InsertIdx(SortIdx(SubSeq(s, 1, Len(s) - 1)), s[Len(s)])

mean(vals) ==
  IF vals = <<>> THEN Null ELSE RDivInt(SumSeq(vals), Len(vals))

\* The middle of the list in the order it has, without the sort
median_unsorted(vals) ==
  IF vals = <<>> THEN Null
  ELSE LET mid == Len(vals) \div 2
       IN  IF Len(vals) % 2 = 1 THEN vals[mid + 1]
           ELSE RDivInt(RAdd(vals[mid], vals[mid + 1]), 2)

\* The array handed to median after the call: the sort runs on the copy
\* [...vals], so vals keeps its elements and their order
medianLeaves(vals) == vals

median(vals) ==
  IF vals = <<>> THEN Null
  ELSE LET s == SortAsc(vals)
           mid == Len(s) \div 2
       IN  IF Len(s) % 2 = 1 THEN s[mid + 1]
           ELSE RDivInt(RAdd(s[mid], s[mid + 1]), 2)

\* Population variance of vals around m.
RECURSIVE SumSqDev(_, _)
SumSqDev(vals, m) ==
  IF vals = <<>> THEN Num(0)
  ELSE RAdd(RMul(RSub(Head(vals), m), RSub(Head(vals), m)), SumSqDev(Tail(vals), m))

\* cv(vals) = sqrt(variance) / mean is irrational in general; the model keeps
\* its square with the sign of the mean, sign(m) * variance / m^2, which
\* orders the same way as cv itself.  Null when the list is empty or m = 0.
\* The same with the sample variance, the squared deviations over n - 1
cv_sample(vals) ==
  LET m == mean(vals)
  IN  IF IsNull(m) \/ m[1] = 0 THEN Null
      ELSE LET variance == RDivInt(SumSqDev(vals, m),
                                   IF Len(vals) = 1 THEN 1 ELSE Len(vals) - 1)
               sq == Rat(variance[1] * m[2] * m[2], variance[2] * m[1] * m[1])
           IN  IF m[1] < 0 THEN Rat(-sq[1], sq[2]) ELSE sq

cv(vals) ==
  LET m == mean(vals)
  IN  IF IsNull(m) \/ m[1] = 0 THEN Null
      ELSE LET variance == RDivInt(SumSqDev(vals, m), Len(vals))
               sq == Rat(variance[1] * m[2] * m[2], variance[2] * m[1] * m[1])
           IN  IF m[1] < 0 THEN Rat(-sq[1], sq[2]) ELSE sq

\* The threshold 0.25 of the method suggestion, squared like cv.
CvThresholdSq == <<1, 16>>

\* c === null ? "mediana" : c < 0.25 ? "media" : "mediana"
suggestedMethod(c) ==
  IF IsNull(c) THEN "mediana" ELSE IF RLt(c, CvThresholdSq) THEN "media" ELSE "mediana"

----------------------------------------------------------------------------
(* State *)

VARIABLES
  variant,         \* which revision of the page runs
  file,            \* useState<File | null>
  status,          \* the status line
  loadingPreview,
  loadingGenerate,
  meta,            \* numeroLista, nomeLista, processoSEI, responsavel
  preview,         \* PreviewItem[]
  previewReady,
  stepPreviewDone,
  lastQuotes,      \* Record<itemId, string>
  overrides,       \* Record<itemId, override>
  modal,           \* the state of the manual-adjust dialog
  lp,              \* the running loadPreview call, if any
  gen,             \* the running generateZip call, if any
  rows,            \* rows materialized by the row specification
  env,             \* process.env of the deployment
  loginRev,        \* which revision of doLogin is deployed
  session,         \* the user of the Auth.js session cookie, if any
  storage,         \* the keys of window.localStorage
  location,        \* where the browser is: path and error parameter
  call,            \* the last server action run and whether it called signIn
  req,             \* the last request and what the middleware did with it
  catmat           \* rawInput and parsed of the CATMAT page

\* The state of the price page
pageVars == <<variant, file, status, loadingPreview, loadingGenerate, meta, preview,
              previewReady, stepPreviewDone, lastQuotes, overrides, modal, lp, gen, rows>>

\* The state of the site around it: session, log-in, routes, CATMAT page
siteVars == <<env, loginRev, session, storage, location, call, req, catmat>>

vars == <<variant, file, status, loadingPreview, loadingGenerate, meta, preview,
          previewReady, stepPreviewDone, lastQuotes, overrides, modal, lp, gen, rows,
          env, loginRev, session, storage, location, call, req, catmat>>

NoUser == "null"
NoCall == [action |-> "none", signIn |-> FALSE]
NoRequest == [path |-> <<>>, user |-> "null", matched |-> FALSE, authorized |-> FALSE]
NoError == ""

\* export const AUTH_KEY = "upde_auth_v1" of the retired client-side guard
AUTH_KEY == "upde_auth_v1"

\* The deployment of the hosted site: quick login off
EnvProduction ==
  [VERCEL_ENV |-> "production", ALLOW_QUICK_LOGIN |-> "", ADMIN_USERNAME |-> <<>>,
   ADMIN_EMAIL |-> <<>>, ADMIN_PASSWORD |-> <<>>]

\* The site while a logged-in user works on the price page
SiteAtPage ==
  /\ env = EnvProduction
  /\ loginRev = "login-actions"
  /\ session = "user"
  /\ storage = {}
  /\ location = [path |-> <<"/", "precos">>, error |-> NoError]
  /\ call = NoCall
  /\ req = NoRequest
  /\ catmat = [rawInput |-> <<>>, parsed |-> <<>>]

Variants == {"precos", "root", "p005", "p006"}

NoFile == "null"
NoItem == ""

EmptyMap == [k \in {} |-> k]

Has(m, k) == k \in DOMAIN m

\* {...m, [k]: v}
Put(m, k, v) == [x \in DOMAIN m \cup {k} |-> IF x = k THEN v ELSE m[x]]

\* Every key deleted
Remove_all(m, k) == [x \in {} |-> x]

\* const copy = {...m}; delete copy[k]
Remove(m, k) == [x \in DOMAIN m \ {k} |-> m[x]]

\* The keys of a win
Spread_firstWins(a, b) == [x \in DOMAIN a \cup DOMAIN b |-> IF x \in DOMAIN a THEN a[x] ELSE b[x]]

\* {...a, ...b}: the keys of b win
Spread(a, b) == [x \in DOMAIN a \cup DOMAIN b |-> IF x \in DOMAIN b THEN b[x] ELSE a[x]]

\* lastQuotes[id] || ""
LastQuoteText(id) == IF Has(lastQuotes, id) THEN lastQuotes[id] ELSE <<>>

Range(s) == {s[i] : i \in DOMAIN s}

\* preview.find((x) => x.item === id); the items of a preview have distinct ids
HasItem(items, id) == \E i \in DOMAIN items : items[i].item = id
FindItem(items, id) == items[CHOOSE i \in DOMAIN items : items[i].item = id]

\* prev.filter((x) => x !== idx)
Without(s, idx) == SelectSeq(s, LAMBDA x : x # idx)

----------------------------------------------------------------------------
(* Line items as the preview service delivers them.  A line item is given  *)
(* abstractly as [item, catmat, auto, entries, kept]; each revision of the *)
(* page expects its own JSON shape of it.                                  *)

\* rep.vals / valores_brutos: number[] (the index of an entry is its position)
ValuesOf(li) == [i \in DOMAIN li.entries |-> li.entries[i].valor]

Encode(v, li) ==
  CASE v = "precos" ->
         [item |-> li.item, catmat |-> li.catmat, valor_calculado |-> li.auto,
          modo |-> "Auto", valor_final |-> li.auto,
          rep |-> [vals |-> ValuesOf(li), mantidos_indices |-> li.kept]]
    [] v = "root" ->
         [item |-> li.item, catmat |-> li.catmat, valor_calculado |-> li.auto,
          valores_brutos |-> li.entries]
    [] v = "p002" ->
         [item |-> li.item, catmat |-> li.catmat, valor_calculado |-> li.auto,
          valores_brutos |-> li.entries, auto_keep_idx |-> li.kept]
    [] v = "p005" ->
         [item |-> li.item, catmat |-> li.catmat, valor_calculado |-> li.auto,
          valores_brutos |-> ValuesOf(li)]
    [] v = "p006" ->
         [item |-> li.item, catmat |-> li.catmat, valor_calculado |-> li.auto,
          valores_brutos |-> li.entries, auto_keep_idx |-> li.kept]

EncodeAll(v, lis) == [i \in DOMAIN lis |-> Encode(v, lis[i])]

----------------------------------------------------------------------------
(* Shared by the revisions *)

\* A band of 1.25 in place of 1.2
EligibilityFactor_wide == <<5, 4>>

\* 1.2, the tolerance band over the last quoted price
EligibilityFactor == <<6, 5>>

Idle == [pc |-> "idle"]

\* The dialog is a fixed full-window overlay: while it is shown the controls
\* of the page under it cannot be clicked.
ModalShown ==
  CASE variant = "precos" -> modal.open
    [] variant \in {"root", "p002", "p005"} ->
         modal.modalItemId # NoItem /\ HasItem(preview, modal.modalItemId)
    [] variant = "p006" -> modal.manualOpen

Blank(s) == Trim(s) = <<>>

MetaInit ==
  [numeroLista |-> <<>>, nomeLista |-> <<>>, processoSEI |-> <<>>, responsavel |-> <<>>]

----------------------------------------------------------------------------
(* src/app/(auth)/precos/page.tsx *)

\* The fixed texts of the justification <select>; "OUTRO" opens the free text.
JustText1 == <<"Foi (Foram) excluida(s) a(s) cotacao(oes) inferior(es) ao ultimo preco homologado no HUSM para evitar a fixacao de preco estimado potencialmente inexequivel sob risco de fracasso do certame.">>
JustText2 == <<"Foi (Foram) excluida(s) a(s) cotacao(oes) inferior(es) ao ultimo preco homologado no HUSM e discrepante da cotacao do produto, cuja comercializacao e exclusiva de fornecedor especifico.">>
Outro == <<"OUTRO">>

manualModalInit ==
  [open |-> FALSE, itemId |-> NoItem, entries |-> <<>>, selected |-> <<>>,
   justificativaOutro |-> <<>>, justificativaSelected |-> <<>>]

fmtSmart_precos(n) ==
  IF IsNull(n) THEN <<>>
  ELSE IF RLe(Num(1), n) THEN toFixedComma(n, 2) ELSE toFixedComma(n, 4)

\* A button that is enabled on every row
getAdjustButtonState_open(itemId, valorFinal) == [enabled |-> TRUE, color |-> "yellow"]

\* The button state without the green of an existing override
getAdjustButtonState_noGreen(itemId, valorFinal) ==
  LET last == parseBRL(LastQuoteText(itemId))
  IN  IF IsNull(last) \/ IsNull(valorFinal)
      THEN [enabled |-> FALSE, color |-> "disabled"]
      ELSE IF RLt(valorFinal, last) THEN [enabled |-> TRUE, color |-> "red"]
      ELSE IF RLe(valorFinal, RMul(EligibilityFactor, last))
           THEN [enabled |-> TRUE, color |-> "yellow"]
      ELSE [enabled |-> FALSE, color |-> "disabled"]

getAdjustButtonState(itemId, valorFinal) ==
  IF Has(overrides, itemId) /\ overrides[itemId].modo = "Manual"
  THEN [enabled |-> TRUE, color |-> "green"]
  ELSE LET last == parseBRL(LastQuoteText(itemId))
       IN  IF IsNull(last) \/ IsNull(valorFinal)
           THEN [enabled |-> FALSE, color |-> "disabled"]
           ELSE IF RLt(valorFinal, last) THEN [enabled |-> TRUE, color |-> "red"]
           ELSE IF RLe(valorFinal, RMul(EligibilityFactor, last))
                THEN [enabled |-> TRUE, color |-> "yellow"]
           ELSE [enabled |-> FALSE, color |-> "disabled"]

\* The last price minus the final value
computeDif_swapped(itemId, valorFinal) ==
  LET last == parseBRL(LastQuoteText(itemId))
  IN  IF IsNull(last) \/ IsNull(valorFinal) THEN Null ELSE RSub(last, valorFinal)

computeDif(itemId, valorFinal) ==
  LET last == parseBRL(LastQuoteText(itemId))
  IN  IF IsNull(last) \/ IsNull(valorFinal) THEN Null ELSE RSub(valorFinal, last)

\* ov.selecionados.map((idx) => Number(vals[idx])).filter(Number.isFinite):
\* an index outside vals gives NaN and is dropped.
RECURSIVE SelectedVals(_, _)
SelectedVals(vals, idxs) ==
  IF idxs = <<>> THEN <<>>
  ELSE (IF Head(idxs) + 1 \in DOMAIN vals THEN <<vals[Head(idxs) + 1]>> ELSE <<>>)
       \o SelectedVals(vals, Tail(idxs))

\* A manual value of zero where nothing is selected
computeManualFinal_zero(item, ov) ==
  LET selectedVals == SelectedVals(item.rep.vals, ov.selecionados)
  IN  IF selectedVals = <<>> THEN Num(0)
      ELSE RDivInt(SumSeq(selectedVals), Len(selectedVals))

computeManualFinal(item, ov) ==
  LET selectedVals == SelectedVals(item.rep.vals, ov.selecionados)
  IN  IF selectedVals = <<>> THEN Null
      ELSE RDivInt(SumSeq(selectedVals), Len(selectedVals))

tableRows_precos ==
  [i \in DOMAIN preview |->
     LET it == preview[i]
         manual == Has(overrides, it.item) /\ overrides[it.item].modo = "Manual"
     IN  [item |-> it.item, catmat |-> it.catmat, valor_calculado |-> it.valor_calculado,
          rep |-> it.rep,
          modo |-> IF manual THEN "Manual"
                   ELSE IF it.modo = "Auto" THEN "Automatico" ELSE it.modo,
          valor_final |-> IF manual THEN computeManualFinal(it, overrides[it.item])
                          ELSE it.valor_final]]

\* entries.sort((a, b) => a.valor - b.valor), a stable sort
RECURSIVE InsertEntry(_, _)
InsertEntry(s, e) ==
  IF s = <<>> THEN <<e>>
  ELSE IF RLt(e.valor, Head(s).valor) THEN <<e>> \o s
  ELSE <<Head(s)>> \o InsertEntry(Tail(s), e)

RECURSIVE SortEntries(_)
SortEntries(es) ==
  IF es = <<>> THEN <<>>
  ELSE InsertEntry(SortEntries(SubSeq(es, 1, Len(es) - 1)), es[Len(es)])

\* The state openManualModal(item) sets.
manualModalFor(item) ==
  LET vals == item.rep.vals
      entries == SortEntries([i \in DOMAIN vals |-> [idx |-> i - 1, valor |-> vals[i]]])
      autoKept == Range(item.rep.mantidos_indices)
      kept == SelectSeq(entries, LAMBDA e : e.idx \in autoKept)
  IN  [open |-> TRUE, itemId |-> item.item, entries |-> entries,
       selected |-> [i \in DOMAIN kept |-> kept[i].idx],
       justificativaOutro |-> <<>>, justificativaSelected |-> <<>>]

\* A Set<number> keeps insertion order: delete if present, else add at the end.
toggleSelect(selected, idx) ==
  IF idx \in Range(selected) THEN Without(selected, idx) ELSE Append(selected, idx)

\* Statistics over all the entries, whatever is selected
computeStatsFromSelected_all(entries, selectedIdx) ==
  LET arr == SortAsc([i \in DOMAIN entries |-> entries[i].valor])
      n == Len(arr)
  IN  IF n = 0 THEN [n |-> 0, mean |-> Null, median |-> Null, cv |-> Null]
      ELSE [n |-> n, mean |-> mean(arr), median |-> median(arr), cv |-> cv(arr)]

computeStatsFromSelected(entries, selectedIdx) ==
  LET chosen == SelectSeq(entries, LAMBDA e : e.idx \in Range(selectedIdx))
      arr == SortAsc([i \in DOMAIN chosen |-> chosen[i].valor])
      n == Len(arr)
  IN  IF n = 0 THEN [n |-> 0, mean |-> Null, median |-> Null, cv |-> Null]
      ELSE LET m == RDivInt(SumSeq(arr), n)
               med == IF n % 2 = 1 THEN arr[((n - 1) \div 2) + 1]
                      ELSE RDivInt(RAdd(arr[n \div 2], arr[(n \div 2) + 1]), 2)
               variance == RDivInt(SumSqDev(arr, m), n)
           IN  [n |-> n, mean |-> m, median |-> med,
                cv |-> IF m[1] # 0
                       THEN Rat(variance[1] * m[2] * m[2] * (IF m[1] < 0 THEN -1 ELSE 1),
                                variance[2] * m[1] * m[1])
                       ELSE Null]

\* What the open dialog displays: the "Estatisticas dinamicas" block and
\* the "Valor estimado (dinamico)", which is the mean
dialogStats_precos ==
  LET stats == computeStatsFromSelected(modal.entries, modal.selected)
  IN  [n |-> stats.n, mean |-> stats.mean, median |-> stats.median, cv |-> stats.cv,
       valorFinal |-> stats.mean]

\* The justification saveManualOverride resolves from the dialog.
justificativaFinal(m) ==
  IF m.justificativaSelected = Outro THEN Trim(m.justificativaOutro)
  ELSE Trim(m.justificativaSelected)

----------------------------------------------------------------------------
(* src/app/page.tsx, and what src/unnamed/part_005 does differently *)

JUST_OPTIONS_root ==
  [OUTLIERS_MANUAL |-> <<"Exclusao manual de valores destoantes (outliers) a partir da analise dos valores brutos.">>,
   FONTE_PRIORIZADA |-> <<"Priorizacao de fontes mais confiaveis (ex.: compras anteriores/homologacoes) frente a cotacoes menos consistentes.">>,
   MERCADO_OSCILACAO |-> <<"Oscilacao de mercado identificada; adotado criterio mais aderente ao contexto recente de aquisicao.">>,
   OUTRO |-> <<>>]

\* JUST_OPTIONS of part_002: the two fixed texts of precos, and no OUTRO
JUST_OPTIONS_p002 == [PADRAO_1 |-> JustText1, PADRAO_2 |-> JustText2]

\* JUST_OPTIONS[code] || ""
JustOption_root(code) ==
  LET options == IF variant = "p002" THEN JUST_OPTIONS_p002 ELSE JUST_OPTIONS_root
  IN  IF code \in DOMAIN options THEN options[code] ELSE <<>>

\* closeModal(): modalItemId null, nothing selected, "media", no justification
modalInit_root ==
  [modalItemId |-> NoItem, modalSelected |-> <<>>, modalMethod |-> "media",
   modalJustCode |-> "", modalJustText |-> <<>>]

\* The entries looked up by their position in the list
IdxToVal_byPosition(entries) == [k \in 0 .. Len(entries) - 1 |-> entries[k + 1].valor]

\* const m = new Map(); for (const e of entries) m.set(e.idx, e.valor):
\* of two entries with one idx the later one wins.
IdxToVal(entries) ==
  [k \in {entries[i].idx : i \in DOMAIN entries} |->
     LET last == CHOOSE i \in DOMAIN entries :
                   /\ entries[i].idx = k
                   /\ \A j \in DOMAIN entries : entries[j].idx = k => j <= i
     IN  entries[last].valor]

\* indices.map((idx) => idxToVal.get(idx)).filter(typeof v === "number")
RECURSIVE IncludedVals(_, _)
IncludedVals(idxToVal, idxs) ==
  IF idxs = <<>> THEN <<>>
  ELSE (IF Head(idxs) \in DOMAIN idxToVal THEN <<idxToVal[Head(idxs)]>> ELSE <<>>)
       \o IncludedVals(idxToVal, Tail(idxs))

\* The manual final value tableRows computes for an item under an override
manualFinal_root(it, ov) ==
  LET included == IncludedVals(IdxToVal(it.valores_brutos), ov.includedIndices)
  IN  IF ov.method = "media" THEN mean(included) ELSE median(included)

eligible_root(last, calc) ==
  /\ ~IsNull(last)
  /\ RLt(Num(0), last)
  /\ ~IsNull(calc)
  /\ RLe(calc, RMul(EligibilityFactor, last))

tableRows_root ==
  [i \in DOMAIN preview |->
     LET it == preview[i]
         last == parseBRL(LastQuoteText(it.item))
         calc == it.valor_calculado
         hasOv == Has(overrides, it.item)
         eligible == eligible_root(last, calc)
         valorFinal == IF hasOv THEN manualFinal_root(it, overrides[it.item]) ELSE calc
     IN  [item |-> it.item, last |-> last, eligible |-> eligible,
          allowManual |-> eligible \/ hasOv,
          adjustColor |-> IF hasOv THEN "green"
                          ELSE IF eligible
                               THEN IF RLt(calc, last) THEN "red" ELSE "yellow"
                          ELSE "none",
          modo |-> IF hasOv THEN "Manual"
                   ELSE IF variant = "p002" THEN "Automatico" ELSE "Auto",
          metodo |-> IF hasOv THEN overrides[it.item].method ELSE "",
          valorFinal |-> valorFinal,
          diffAbs |-> IF ~IsNull(last) /\ ~IsNull(valorFinal)
                      THEN RSub(valorFinal, last) ELSE Null,
          hasOverride |-> hasOv]]

\* part_005: allowed = last !== null && calc !== null && calc < last
allowed_p005(last, calc) == ~IsNull(last) /\ ~IsNull(calc) /\ RLt(calc, last)

tableRows_p005 ==
  [i \in DOMAIN preview |->
     LET it == preview[i]
         last == parseBRL(LastQuoteText(it.item))
         calc == it.valor_calculado
         allowManual == allowed_p005(last, calc)
         hasOv == Has(overrides, it.item)
         included == SelectedVals(it.valores_brutos, overrides[it.item].includedIndices)
         valorFinal == IF allowManual /\ hasOv
                       THEN IF overrides[it.item].method = "media"
                            THEN mean(included) ELSE median(included)
                       ELSE calc
     IN  [item |-> it.item, last |-> last, allowManual |-> allowManual,
          modo |-> IF allowManual /\ hasOv THEN "Manual"
                   ELSE IF allowManual THEN "Pendente" ELSE "Auto",
          metodo |-> IF allowManual /\ hasOv THEN overrides[it.item].method ELSE "",
          valorFinal |-> valorFinal,
          diffAbs |-> IF ~IsNull(last) /\ ~IsNull(valorFinal)
                      THEN RSub(valorFinal, last) ELSE Null,
          hasOverride |-> hasOv]]

\* The state openManualModal(item) sets once its guard has passed.
modalFor_root(item) ==
  IF Has(overrides, item.item)
  THEN LET existing == overrides[item.item]
       IN  [modalItemId |-> item.item, modalSelected |-> existing.includedIndices,
            modalMethod |-> existing.method,
            modalJustCode |-> existing.justificativaCodigo,
            modalJustText |-> existing.justificativaTexto]
  ELSE LET vals == IF variant = "p005" THEN item.valores_brutos
                   ELSE [i \in DOMAIN item.valores_brutos |-> item.valores_brutos[i].valor]
           allIdx == IF variant = "p005"
                     THEN [i \in DOMAIN item.valores_brutos |-> i - 1]
                     ELSE IF variant = "p002" /\ item.auto_keep_idx # <<>>
                     THEN item.auto_keep_idx
                     ELSE [i \in DOMAIN item.valores_brutos |-> item.valores_brutos[i].idx]
       IN  [modalItemId |-> item.item, modalSelected |-> allIdx,
            modalMethod |-> suggestedMethod(cv(vals)),
            modalJustCode |-> "", modalJustText |-> <<>>]

\* modalIncludedValues and modalStats of the open dialog, with the two
\* counts its "Calculo (dinamico)" block displays
modalStats_root ==
  LET vb == FindItem(preview, modal.modalItemId).valores_brutos
      modalIncludedValues == IncludedVals(IdxToVal(vb), modal.modalSelected)
      m == mean(modalIncludedValues)
      med == median(modalIncludedValues)
      excluded == Len(vb) - Len(modal.modalSelected)
  IN  [included |-> Len(modal.modalSelected),
       excluded |-> IF excluded < 0 THEN 0 ELSE excluded,
       mean |-> m, median |-> med, cv |-> cv(modalIncludedValues),
       finalVal |-> IF modal.modalMethod = "media" THEN m ELSE med]

\* prev.includes(idx) ? prev.filter(...) : [...prev, idx].sort(...)
toggleModalIndex_root(selected, idx) ==
  IF idx \in Range(selected) THEN Without(selected, idx)
  ELSE SortIdx(Append(selected, idx))

\* The justification text saveManualOverride stores.
finalJustText(m) ==
  IF variant \in {"root", "p002"}
  THEN IF m.modalJustCode # "" /\ m.modalJustCode # "OUTRO"
       THEN JustOption_root(m.modalJustCode) ELSE m.modalJustText
  ELSE m.modalJustText

----------------------------------------------------------------------------
(* src/unnamed/part_006, an earlier revision of the precos page.  The file *)
(* stops before its render: its handlers and state are here, the wiring of *)
(* its buttons is not.                                                      *)

manualInit_p006 ==
  [manualOpen |-> FALSE, manualItemId |-> NoItem, manualMethod |-> "mediana",
   manualIncluded |-> <<>>, manualJust |-> "PADRAO_1", manualJustOther |-> <<>>]

tableRows_p006 ==
  [i \in DOMAIN preview |->
     LET it == preview[i]
         hasOv == Has(overrides, it.item)
         keep == IF hasOv THEN Range(overrides[it.item].includedIndices)
                 ELSE Range(it.auto_keep_idx)
         kept == SelectSeq(it.valores_brutos, LAMBDA e : e.idx \in keep)
         vals == [k \in DOMAIN kept |-> kept[k].valor]
         method == IF hasOv THEN overrides[it.item].method ELSE "mediana"
         valor_final == IF method = "media" THEN mean(vals) ELSE median(vals)
         ultimo_digitado == parseBRL(LastQuoteText(it.item))
     IN  [item |-> it.item, valor_calculado |-> it.valor_calculado,
          valor_final |-> valor_final,
          dif |-> IF ~IsNull(ultimo_digitado) /\ ~IsNull(valor_final)
                  THEN RSub(valor_final, ultimo_digitado) ELSE Null,
          method |-> method, has_override |-> hasOv]]

\* The state openManualFor(itemId) sets.
manualFor_p006(it) ==
  LET hasOv == Has(overrides, it.item)
  IN  [manualOpen |-> TRUE, manualItemId |-> it.item,
       manualMethod |-> IF hasOv THEN overrides[it.item].method ELSE "mediana",
       manualIncluded |-> IF hasOv /\ overrides[it.item].includedIndices # <<>>
                          THEN overrides[it.item].includedIndices ELSE it.auto_keep_idx,
       manualJust |-> IF hasOv /\ overrides[it.item].justificativaCodigo # ""
                      THEN overrides[it.item].justificativaCodigo ELSE "PADRAO_1",
       manualJustOther |-> IF hasOv THEN overrides[it.item].justificativaTexto ELSE <<>>]

\* prev.includes(idx) ? prev.filter(...) : [...prev, idx]
toggleInclude_p006(included, idx) ==
  IF idx \in Range(included) THEN Without(included, idx) ELSE Append(included, idx)

----------------------------------------------------------------------------
(* Construction, the file input and the preview request *)

StatusGerando == "Gerando previa..."
StatusPreviaGerada == "Previa gerada."
StatusPreviaCarregada == "Previa carregada."
StatusFalhaPrevia == "Falha ao gerar previa"
StatusSelecioneValor_precos == "Selecione ao menos 1 valor para salvar o ajuste manual."
StatusSelecioneValor_root == "Selecione ao menos 1 valor para o calculo manual."
StatusSelecioneJustificativa == "Selecione uma justificativa ou preencha 'Outro'."

ModalInit(v) ==
  CASE v = "precos" -> manualModalInit
    [] v \in {"root", "p002", "p005"} -> modalInit_root
    [] v = "p006" -> manualInit_p006

\* The useState initial values of the page.
Init ==
  /\ variant \in Variants
  /\ file = NoFile
  /\ status = ""
  /\ loadingPreview = FALSE
  /\ loadingGenerate = FALSE
  /\ meta = MetaInit
  /\ preview = <<>>
  /\ previewReady = FALSE
  /\ stepPreviewDone = FALSE
  /\ lastQuotes = EmptyMap
  /\ overrides = EmptyMap
  /\ modal = ModalInit(variant)
  /\ lp = Idle
  /\ gen = Idle
  /\ rows = <<>>
  /\ SiteAtPage

\* The <input type="file"> onChange.  precos resets the page with the file,
\* and so does the effect part_002 runs on a change of the file, which also
\* empties the list fields; page.tsx and part_005 only keep the file.  Of
\* part_006, whose render is missing, only the first choice of a file is
\* taken.
fileOnChange(f) ==
  /\ ~ModalShown
  /\ f # file
  /\ variant = "p006" => file = NoFile
  /\ file' = f
  /\ meta' = IF variant = "p002" THEN MetaInit ELSE meta
  /\ IF variant \in {"precos", "p002"}
     THEN /\ status' = ""
          /\ preview' = <<>>
          /\ previewReady' = FALSE
          /\ overrides' = EmptyMap
          /\ lastQuotes' = EmptyMap
          /\ stepPreviewDone' = FALSE
     ELSE UNCHANGED <<status, preview, previewReady, overrides, lastQuotes, stepPreviewDone>>
  /\ UNCHANGED siteVars /\ UNCHANGED <<variant, loadingPreview, loadingGenerate, modal, lp, gen, rows>>

\* The "Gerar previa" button is disabled without a file, while a preview is
\* loading and, in precos and part_002, once the preview is there.
loadPreviewEnabled_whileLoading ==
  /\ file # NoFile
  /\ variant = "precos" => ~stepPreviewDone
  /\ variant = "p002" => ~previewReady

loadPreviewEnabled ==
  /\ file # NoFile
  /\ ~loadingPreview
  /\ variant = "precos" => ~stepPreviewDone
  /\ variant = "p002" => ~previewReady

\* loadPreview() up to its fetch.
loadPreview ==
  /\ ~ModalShown
  /\ loadPreviewEnabled
  /\ status' = StatusGerando
  /\ loadingPreview' = TRUE
  /\ previewReady' = FALSE
  /\ preview' = <<>>
  /\ overrides' = EmptyMap
  /\ lastQuotes' = EmptyMap
  /\ meta' = IF variant = "root" THEN MetaInit ELSE meta
  /\ lp' = [pc |-> "preview", file |-> file]
  /\ UNCHANGED siteVars /\ UNCHANGED <<variant, file, loadingGenerate, stepPreviewDone, modal, gen, rows>>

\* The catmats hydratePncpUltimo asks for: precos keeps the trimmed codes made
\* of digits only, part_006 every non-empty code.
Catmats(items) ==
  IF variant = "precos"
  THEN {Trim(items[i].catmat) : i \in {j \in DOMAIN items :
           Trim(items[j].catmat) # <<>> /\ AllDigits(Trim(items[j].catmat))}}
  ELSE {items[i].catmat : i \in {j \in DOMAIN items : items[j].catmat # <<>>}}

Hydrates == variant \in {"precos", "p006"}

\* loadPreview() from the answer of /api/preview on.  lis are the line items
\* the service extracted from the uploaded file.
previewResponse(outcome, lis) ==
  /\ lp.pc = "preview"
  /\ LET items == EncodeAll(variant, lis)
         waits == Hydrates /\ Catmats(items) # {}
     IN  IF outcome = "ok"
         THEN /\ preview' = items
              /\ previewReady' = (variant \in {"precos", "p002"} \/ (variant = "p006" /\ ~waits))
              /\ status' = IF variant = "precos" THEN StatusPreviaGerada
                           ELSE IF variant = "p006" /\ waits THEN status
                           ELSE StatusPreviaCarregada
              /\ stepPreviewDone' = (variant = "precos" /\ ~waits)
              /\ loadingPreview' = waits
              /\ lp' = IF waits THEN [pc |-> "hydrate", items |-> items] ELSE Idle
         ELSE /\ status' = StatusFalhaPrevia
              /\ loadingPreview' = FALSE
              /\ lp' = Idle
              /\ UNCHANGED <<preview, previewReady, stepPreviewDone>>
  /\ UNCHANGED siteVars /\ UNCHANGED <<variant, file, loadingGenerate, meta, lastQuotes, overrides, modal, gen, rows>>

\* nextLastQuotes of hydratePncpUltimo: fmtSmart of the unit price found for
\* the catmat of each item.
nextLastQuotes(items, byCatmat) ==
  LET hit == {i \in DOMAIN items : Trim(items[i].catmat) \in DOMAIN byCatmat}
  IN  [id \in {items[i].item : i \in hit} |->
         fmtSmart_precos(byCatmat[Trim(FindItem(items, id).catmat)])]

\* hydratePncpUltimo from the answer of /api/ultimo_licitado on, and the rest
\* of loadPreview() after it.  byCatmat holds the numeric unit prices found.
hydrateResponse(outcome, byCatmat) ==
  /\ lp.pc = "hydrate"
  /\ IF variant = "precos"
     THEN /\ lastQuotes' = IF outcome = "ok"
                           THEN Spread(nextLastQuotes(lp.items, byCatmat), lastQuotes)
                           ELSE lastQuotes
          /\ stepPreviewDone' = (outcome # "throw")
          /\ status' = IF outcome = "throw" THEN StatusFalhaPrevia ELSE status
          /\ UNCHANGED previewReady
     ELSE /\ status' = StatusPreviaCarregada
          /\ previewReady' = TRUE
          /\ UNCHANGED <<lastQuotes, stepPreviewDone>>
  /\ loadingPreview' = FALSE
  /\ lp' = Idle
  /\ UNCHANGED siteVars /\ UNCHANGED <<variant, file, loadingGenerate, meta, preview, overrides, modal, gen, rows>>

\* An input of the last price that also drops the override of its row
lastQuoteOnChange_dropping(id, text) ==
  /\ ~ModalShown
  /\ HasItem(preview, id)
  /\ LastQuoteText(id) # text
  /\ lastQuotes' = Put(lastQuotes, id, text)
  /\ overrides' = [k \in DOMAIN overrides \ {id} |-> overrides[k]]
  /\ UNCHANGED siteVars /\ UNCHANGED <<variant, file, status, loadingPreview, loadingGenerate, meta, preview,
                 previewReady, stepPreviewDone, modal, lp, gen, rows>>

\* The "Ultimo licitado" input of a row: {...prev, [r.item]: e.target.value}
lastQuoteOnChange(id, text) ==
  /\ ~ModalShown
  /\ HasItem(preview, id)
  /\ LastQuoteText(id) # text
  /\ lastQuotes' = Put(lastQuotes, id, text)
  /\ UNCHANGED siteVars /\ UNCHANGED <<variant, file, status, loadingPreview, loadingGenerate, meta, preview,
                 previewReady, stepPreviewDone, overrides, modal, lp, gen, rows>>

----------------------------------------------------------------------------
(* The manual-adjust dialog of precos *)

RowOf(rs, id) == rs[CHOOSE i \in DOMAIN rs : rs[i].item = id]

\* The "Ajustar" button of a row, disabled={!adj.enabled}
openManualModal_precos(id) ==
  /\ variant = "precos"
  /\ ~ModalShown
  /\ HasItem(preview, id)
  /\ getAdjustButtonState(id, RowOf(tableRows_precos, id).valor_final).enabled
  /\ modal' = manualModalFor(RowOf(tableRows_precos, id))
  /\ UNCHANGED siteVars /\ UNCHANGED <<variant, file, status, loadingPreview, loadingGenerate, meta, preview,
                 previewReady, stepPreviewDone, lastQuotes, overrides, lp, gen, rows>>

\* The checkbox of an entry of the dialog
toggleSelect_precos(idx) ==
  /\ variant = "precos"
  /\ modal.open
  /\ \E i \in DOMAIN modal.entries : modal.entries[i].idx = idx
  /\ modal' = [modal EXCEPT !.selected = toggleSelect(modal.selected, idx)]
  /\ UNCHANGED siteVars /\ UNCHANGED <<variant, file, status, loadingPreview, loadingGenerate, meta, preview,
                 previewReady, stepPreviewDone, lastQuotes, overrides, lp, gen, rows>>

JustSelectOptions == {<<>>, JustText1, JustText2, Outro}

\* The justification <select>: leaving "OUTRO" empties the free text.
justificativaSelectedOnChange(v) ==
  /\ variant = "precos"
  /\ modal.open
  /\ v \in JustSelectOptions
  /\ v # modal.justificativaSelected
  /\ modal' = [modal EXCEPT !.justificativaSelected = v,
                            !.justificativaOutro = IF v = Outro THEN @ ELSE <<>>]
  /\ UNCHANGED siteVars /\ UNCHANGED <<variant, file, status, loadingPreview, loadingGenerate, meta, preview,
                 previewReady, stepPreviewDone, lastQuotes, overrides, lp, gen, rows>>

\* The free-text <textarea>, rendered only under "OUTRO"
justificativaOutroOnChange(text) ==
  /\ variant = "precos"
  /\ modal.open
  /\ modal.justificativaSelected = Outro
  /\ text # modal.justificativaOutro
  /\ modal' = [modal EXCEPT !.justificativaOutro = text]
  /\ UNCHANGED siteVars /\ UNCHANGED <<variant, file, status, loadingPreview, loadingGenerate, meta, preview,
                 previewReady, stepPreviewDone, lastQuotes, overrides, lp, gen, rows>>

saveManualOverride_precos ==
  /\ variant = "precos"
  /\ modal.open
  /\ LET stats == computeStatsFromSelected(modal.entries, modal.selected)
     IN  IF stats.n = 0
         THEN /\ status' = StatusSelecioneValor_precos
              /\ UNCHANGED <<overrides, modal>>
         ELSE IF justificativaFinal(modal) = <<>>
         THEN /\ status' = StatusSelecioneJustificativa
              /\ UNCHANGED <<overrides, modal>>
         ELSE /\ overrides' = Put(overrides, modal.itemId,
                                  [modo |-> "Manual",
                                   selecionados |-> SortIdx(modal.selected),
                                   justificativa |-> justificativaFinal(modal)])
              /\ modal' = [modal EXCEPT !.open = FALSE]
              /\ UNCHANGED status
  /\ UNCHANGED siteVars /\ UNCHANGED <<variant, file, loadingPreview, loadingGenerate, meta, preview,
                 previewReady, stepPreviewDone, lastQuotes, lp, gen, rows>>

closeModal_precos ==
  /\ variant = "precos"
  /\ modal.open
  /\ modal' = [modal EXCEPT !.open = FALSE]
  /\ UNCHANGED siteVars /\ UNCHANGED <<variant, file, status, loadingPreview, loadingGenerate, meta, preview,
                 previewReady, stepPreviewDone, lastQuotes, overrides, lp, gen, rows>>

\* The "Remover" button, rendered for a row whose override is Manual
clearManualOverride_precos(itemId) ==
  /\ variant = "precos"
  /\ ~ModalShown
  /\ HasItem(preview, itemId)
  /\ Has(overrides, itemId) /\ overrides[itemId].modo = "Manual"
  /\ overrides' = Remove(overrides, itemId)
  /\ UNCHANGED siteVars /\ UNCHANGED <<variant, file, status, loadingPreview, loadingGenerate, meta, preview,
                 previewReady, stepPreviewDone, lastQuotes, modal, lp, gen, rows>>

----------------------------------------------------------------------------
(* The manual-adjust dialog of page.tsx and part_005 *)

Old == variant \in {"root", "p002", "p005"}

tableRows_old == IF variant \in {"root", "p002"} THEN tableRows_root ELSE tableRows_p005

\* The options of the justification <select>
JustCodes ==
  IF variant = "root"
  THEN {"", "OUTLIERS_MANUAL", "FONTE_PRIORIZADA", "MERCADO_OSCILACAO", "OUTRO"}
  ELSE IF variant = "p002" THEN {"", "PADRAO_1", "PADRAO_2", "OUTRO"}
  ELSE {"", "OUTLIERS_MANUAL", "DADOS_INCONSISTENTES", "HISTORICO_INSTITUICAO", "OUTRO"}

\* The guard openManualModal(item) returns on.
openAllowed(item) ==
  LET last == parseBRL(LastQuoteText(item.item))
      calc == item.valor_calculado
  IN  IF variant \in {"root", "p002"}
      THEN eligible_root(last, calc) \/ Has(overrides, item.item)
      ELSE allowed_p005(last, calc)

\* The "Ajustar" button of a row, disabled={!r.allowManual}, and the handler
openManualModal_root(id) ==
  /\ Old
  /\ ~ModalShown
  /\ HasItem(preview, id)
  /\ RowOf(tableRows_old, id).allowManual
  /\ modal' = IF openAllowed(FindItem(preview, id))
              THEN modalFor_root(FindItem(preview, id)) ELSE modal
  /\ UNCHANGED siteVars /\ UNCHANGED <<variant, file, status, loadingPreview, loadingGenerate, meta, preview,
                 previewReady, stepPreviewDone, lastQuotes, overrides, lp, gen, rows>>

\* The indices the dialog lists a checkbox for
ModalIndices ==
  LET vb == FindItem(preview, modal.modalItemId).valores_brutos
  IN  IF variant = "p005" THEN {i - 1 : i \in DOMAIN vb}
      ELSE {vb[i].idx : i \in DOMAIN vb}

toggleModalIndex(idx) ==
  /\ Old
  /\ ModalShown
  /\ idx \in ModalIndices
  /\ modal' = [modal EXCEPT !.modalSelected = toggleModalIndex_root(modal.modalSelected, idx)]
  /\ UNCHANGED siteVars /\ UNCHANGED <<variant, file, status, loadingPreview, loadingGenerate, meta, preview,
                 previewReady, stepPreviewDone, lastQuotes, overrides, lp, gen, rows>>

\* The two method radio buttons
setModalMethod(m) ==
  /\ Old
  /\ ModalShown
  /\ m \in {"media", "mediana"}
  /\ m # modal.modalMethod
  /\ modal' = [modal EXCEPT !.modalMethod = m]
  /\ UNCHANGED siteVars /\ UNCHANGED <<variant, file, status, loadingPreview, loadingGenerate, meta, preview,
                 previewReady, stepPreviewDone, lastQuotes, overrides, lp, gen, rows>>

\* The justification <select>: page.tsx also sets the text to the option's
\* text, part_005 sets the code only.
modalJustCodeOnChange(code) ==
  /\ Old
  /\ ModalShown
  /\ code \in JustCodes
  /\ code # modal.modalJustCode
  /\ modal' = [modal EXCEPT !.modalJustCode = code,
                            !.modalJustText = IF variant = "p005" THEN @
                                              ELSE IF code = "" \/ code = "OUTRO" THEN <<>>
                                              ELSE JustOption_root(code)]
  /\ UNCHANGED siteVars /\ UNCHANGED <<variant, file, status, loadingPreview, loadingGenerate, meta, preview,
                 previewReady, stepPreviewDone, lastQuotes, overrides, lp, gen, rows>>

\* The justification <textarea>; page.tsx disables it under a fixed option.
setModalJustText(text) ==
  /\ Old
  /\ ModalShown
  /\ variant \in {"root", "p002"} => modal.modalJustCode \in {"", "OUTRO"}
  /\ text # modal.modalJustText
  /\ modal' = [modal EXCEPT !.modalJustText = text]
  /\ UNCHANGED siteVars /\ UNCHANGED <<variant, file, status, loadingPreview, loadingGenerate, meta, preview,
                 previewReady, stepPreviewDone, lastQuotes, overrides, lp, gen, rows>>

saveManualOverride_root ==
  /\ Old
  /\ ModalShown
  /\ IF modal.modalSelected = <<>>
     THEN /\ status' = StatusSelecioneValor_root
          /\ UNCHANGED <<overrides, modal>>
     ELSE /\ overrides' = Put(overrides, modal.modalItemId,
                              [includedIndices |-> SortIdx(modal.modalSelected),
                               method |-> modal.modalMethod,
                               justificativaCodigo |-> modal.modalJustCode,
                               justificativaTexto |-> finalJustText(modal)])
          /\ modal' = modalInit_root
          /\ UNCHANGED status
  /\ UNCHANGED siteVars /\ UNCHANGED <<variant, file, loadingPreview, loadingGenerate, meta, preview,
                 previewReady, stepPreviewDone, lastQuotes, lp, gen, rows>>

\* "Fechar", "Cancelar" and a click on the backdrop
closeModal_root ==
  /\ Old
  /\ ModalShown
  /\ modal' = modalInit_root
  /\ UNCHANGED siteVars /\ UNCHANGED <<variant, file, status, loadingPreview, loadingGenerate, meta, preview,
                 previewReady, stepPreviewDone, lastQuotes, overrides, lp, gen, rows>>

\* The "Limpar" button, rendered for a row with r.hasOverride
clearManualOverride_root(itemId) ==
  /\ Old
  /\ ~ModalShown
  /\ HasItem(preview, itemId)
  /\ RowOf(tableRows_old, itemId).hasOverride
  /\ overrides' = Remove(overrides, itemId)
  /\ UNCHANGED siteVars /\ UNCHANGED <<variant, file, status, loadingPreview, loadingGenerate, meta, preview,
                 previewReady, stepPreviewDone, lastQuotes, modal, lp, gen, rows>>

----------------------------------------------------------------------------
(* The manual-adjust dialog of part_006 *)

\* The render of part_006 is missing and its openManualFor has no guard of
\* its own; the button is taken to follow the rule of the specification: a
\* row can be adjusted when it has an override or is eligible.
adjustEnabled_p006(it) ==
  \/ Has(overrides, it.item)
  \/ eligible_root(parseBRL(LastQuoteText(it.item)), it.valor_calculado)

openManualFor(itemId) ==
  /\ variant = "p006"
  /\ ~ModalShown
  /\ HasItem(preview, itemId)
  /\ adjustEnabled_p006(FindItem(preview, itemId))
  /\ modal' = manualFor_p006(FindItem(preview, itemId))
  /\ UNCHANGED siteVars /\ UNCHANGED <<variant, file, status, loadingPreview, loadingGenerate, meta, preview,
                 previewReady, stepPreviewDone, lastQuotes, overrides, lp, gen, rows>>

toggleInclude(idx) ==
  /\ variant = "p006"
  /\ ModalShown
  /\ HasItem(preview, modal.manualItemId)
  /\ \E i \in DOMAIN FindItem(preview, modal.manualItemId).valores_brutos :
        FindItem(preview, modal.manualItemId).valores_brutos[i].idx = idx
  /\ modal' = [modal EXCEPT !.manualIncluded = toggleInclude_p006(modal.manualIncluded, idx)]
  /\ UNCHANGED siteVars /\ UNCHANGED <<variant, file, status, loadingPreview, loadingGenerate, meta, preview,
                 previewReady, stepPreviewDone, lastQuotes, overrides, lp, gen, rows>>

\* The setters of the dialog's method, justification code and free text
setManualMethod(m) ==
  /\ variant = "p006"
  /\ ModalShown
  /\ m \in {"media", "mediana"}
  /\ m # modal.manualMethod
  /\ modal' = [modal EXCEPT !.manualMethod = m]
  /\ UNCHANGED siteVars /\ UNCHANGED <<variant, file, status, loadingPreview, loadingGenerate, meta, preview,
                 previewReady, stepPreviewDone, lastQuotes, overrides, lp, gen, rows>>

setManualJust(code) ==
  /\ variant = "p006"
  /\ ModalShown
  /\ code \in {"PADRAO_1", "PADRAO_2", "OUTRO"}
  /\ code # modal.manualJust
  /\ modal' = [modal EXCEPT !.manualJust = code]
  /\ UNCHANGED siteVars /\ UNCHANGED <<variant, file, status, loadingPreview, loadingGenerate, meta, preview,
                 previewReady, stepPreviewDone, lastQuotes, overrides, lp, gen, rows>>

setManualJustOther(text) ==
  /\ variant = "p006"
  /\ ModalShown
  /\ text # modal.manualJustOther
  /\ modal' = [modal EXCEPT !.manualJustOther = text]
  /\ UNCHANGED siteVars /\ UNCHANGED <<variant, file, status, loadingPreview, loadingGenerate, meta, preview,
                 previewReady, stepPreviewDone, lastQuotes, overrides, lp, gen, rows>>

saveManual ==
  /\ variant = "p006"
  /\ ModalShown
  /\ IF modal.manualItemId = NoItem
     THEN UNCHANGED <<overrides, modal>>
     ELSE /\ overrides' = Put(overrides, modal.manualItemId,
                              [includedIndices |-> SortIdx(modal.manualIncluded),
                               method |-> modal.manualMethod,
                               justificativaCodigo |-> modal.manualJust,
                               justificativaTexto |-> IF modal.manualJust = "OUTRO"
                                                      THEN Trim(modal.manualJustOther)
                                                      ELSE <<>>])
          /\ modal' = [manualInit_p006 EXCEPT !.manualMethod = modal.manualMethod]
  /\ UNCHANGED siteVars /\ UNCHANGED <<variant, file, status, loadingPreview, loadingGenerate, meta, preview,
                 previewReady, stepPreviewDone, lastQuotes, lp, gen, rows>>

closeManual ==
  /\ variant = "p006"
  /\ ModalShown
  /\ modal' = [manualInit_p006 EXCEPT !.manualMethod = modal.manualMethod]
  /\ UNCHANGED siteVars /\ UNCHANGED <<variant, file, status, loadingPreview, loadingGenerate, meta, preview,
                 previewReady, stepPreviewDone, lastQuotes, overrides, lp, gen, rows>>

----------------------------------------------------------------------------
(* The list fields and the ZIP request *)

\* The required fields of the list: part_005 has none, page.tsx no "responsavel"
MetaFields ==
  CASE variant \in {"precos", "p002", "p006"} ->
         {"numeroLista", "nomeLista", "processoSEI", "responsavel"}
    [] variant = "root" -> {"numeroLista", "nomeLista", "processoSEI"}
    [] variant = "p005" -> {}

\* The inputs of the list fields, rendered with the preview
setMeta(field, text) ==
  /\ ~ModalShown
  /\ preview # <<>>
  /\ field \in MetaFields
  /\ meta[field] # text
  /\ meta' = [meta EXCEPT ![field] = text]
  /\ UNCHANGED siteVars /\ UNCHANGED <<variant, file, status, loadingPreview, loadingGenerate, preview,
                 previewReady, stepPreviewDone, lastQuotes, overrides, modal, lp, gen, rows>>

\* disabled={!file || !preview.length || loadingGenerate || !<field>.trim() ...}
generateEnabled ==
  /\ file # NoFile
  /\ preview # <<>>
  /\ ~loadingGenerate
  /\ \A f \in MetaFields : ~Blank(meta[f])

StatusGerandoZip == "Gerando ZIP..."
StatusZipGerado == "ZIP gerado."
StatusFalhaZip == "Falha ao gerar ZIP"
StatusGerandoArquivos == "Gerando arquivos finais..."
StatusConcluido == "Concluido! ZIP gerado com Excel + 2 PDFs."
StatusFalhaProcessar == "Falha ao processar"

\* const payload = {...} of generateZip(): page.tsx parses the typed last
\* prices and renames the fields of the overrides, precos/page.tsx sends the
\* state maps as they are
generatePayload ==
  CASE variant = "precos" ->
         [numero_lista |-> Trim(meta.numeroLista),
          nome_lista |-> Trim(meta.nomeLista),
          processo_sei |-> Trim(meta.processoSEI),
          responsavel |-> Trim(meta.responsavel),
          preview_items |-> preview,
          overrides |-> overrides,
          last_quotes |-> lastQuotes]
    [] variant = "root" ->
         [last_quotes |->
            [id \in {preview[i].item : i \in {j \in DOMAIN preview :
                                                ~IsNull(parseBRL(LastQuoteText(preview[j].item)))}}
               |-> parseBRL(LastQuoteText(id))],
          manual_overrides |->
            [id \in DOMAIN overrides |->
               [included_indices |-> overrides[id].includedIndices,
                method |-> overrides[id].method,
                justificativa_codigo |-> overrides[id].justificativaCodigo,
                justificativa_texto |-> overrides[id].justificativaTexto]],
          lista_meta |->
            [numero_lista |-> Trim(meta.numeroLista),
             nome_lista |-> Trim(meta.nomeLista),
             processo_sei |-> Trim(meta.processoSEI)]]

\* generateZip() up to its fetch
generateZip ==
  /\ ~ModalShown
  /\ generateEnabled
  /\ loadingGenerate' = TRUE
  /\ status' = IF variant = "precos" THEN StatusGerandoZip ELSE StatusGerandoArquivos
  /\ gen' = [pc |-> "generate", payload |-> generatePayload]
  /\ UNCHANGED siteVars /\ UNCHANGED <<variant, file, loadingPreview, meta, preview, previewReady,
                 stepPreviewDone, lastQuotes, overrides, modal, lp, rows>>

\* generateZip() from the answer of /api/generate on
generateResponse(outcome) ==
  /\ gen.pc = "generate"
  /\ status' = CASE outcome = "ok" ->
                    IF variant = "precos" THEN StatusZipGerado ELSE StatusConcluido
                 [] outcome = "http_error" -> StatusFalhaProcessar
                 [] outcome = "throw" -> StatusFalhaZip
  /\ loadingGenerate' = FALSE
  /\ gen' = Idle
  /\ UNCHANGED siteVars /\ UNCHANGED <<variant, file, loadingPreview, meta, preview, previewReady,
                 stepPreviewDone, lastQuotes, overrides, modal, lp, rows>>

StatusSelecionePdf == "Selecione um PDF primeiro."
StatusGereAPrevia == "Gere a previa antes de gerar o ZIP."
StatusGereAPreviaArquivos == "Gere a previa antes de baixar os arquivos."
StatusPreenchaCampos == "Preencha os campos obrigatorios (Lista/SEI/Responsavel)."
StatusPreenchaCamposLista ==
  "Preencha os campos obrigatorios: Numero da Lista, Nome da Lista e Processo SEI."

\* generateZip() as a function of the page state, up to its fetch: the three
\* early returns that only set the status, then the request. The handler
\* itself does not look at loadingGenerate.
generateZipHandler ==
  /\ gen.pc = "idle"
  /\ IF file = NoFile
       THEN /\ status' = StatusSelecionePdf
            /\ UNCHANGED <<loadingGenerate, gen>>
     ELSE IF preview = <<>>
       THEN /\ status' = IF variant = "precos" THEN StatusGereAPrevia
                                               ELSE StatusGereAPreviaArquivos
            /\ UNCHANGED <<loadingGenerate, gen>>
     ELSE IF \E f \in MetaFields : Blank(meta[f])
       THEN /\ status' = IF variant = "precos" THEN StatusPreenchaCampos
                                               ELSE StatusPreenchaCamposLista
            /\ UNCHANGED <<loadingGenerate, gen>>
     ELSE /\ loadingGenerate' = TRUE
          /\ status' = IF variant = "precos" THEN StatusGerandoZip ELSE StatusGerandoArquivos
          /\ gen' = [pc |-> "generate", payload |-> generatePayload]
  /\ UNCHANGED siteVars /\ UNCHANGED <<variant, file, loadingPreview, meta, preview, previewReady,
                 stepPreviewDone, lastQuotes, overrides, modal, lp, rows>>

----------------------------------------------------------------------------
(* The rows the table renders *)

\* The row of precos with what its cells compute while rendering: the state
\* of the "Ajustar" button and the difference to the last price.
renderRows_precos ==
  [i \in DOMAIN tableRows_precos |->
     LET r == tableRows_precos[i]
     IN  [item |-> r.item, modo |-> r.modo, valor_calculado |-> r.valor_calculado,
          valor_final |-> r.valor_final,
          adj |-> getAdjustButtonState(r.item, r.valor_final),
          dif |-> computeDif(r.item, r.valor_final)]]

tableRows ==
  CASE variant = "precos" -> renderRows_precos
    [] variant \in {"root", "p002"} -> tableRows_root
    [] variant = "p005" -> tableRows_p005
    [] variant = "p006" -> tableRows_p006

\* useMemo(() => preview.map(...), [preview, lastQuotes, overrides])
Materialize ==
  /\ rows = <<>>
  /\ preview # <<>>
  /\ rows' = tableRows
  /\ UNCHANGED siteVars /\ UNCHANGED <<variant, file, status, loadingPreview, loadingGenerate, meta, preview,
                 previewReady, stepPreviewDone, lastQuotes, overrides, modal, lp, gen>>

----------------------------------------------------------------------------
(* What the environment supplies: the uploaded files with the line items the *)
(* preview service extracts from them, what the user types, how the requests *)
(* end.  Prices are positive.                                                *)

E(i, v) == [idx |-> i, valor |-> Num(v)]

\* quotations 14, 10 and 50; the service dropped the 50 and averaged to 12
ItemA1 ==
  [item |-> "1", catmat |-> <<>>, auto |-> Num(12),
   entries |-> <<E(0, 14), E(1, 10), E(2, 50)>>, kept |-> <<0, 1>>]

ItemB1 ==
  [item |-> "1", catmat |-> <<"4", "5">>, auto |-> Num(12),
   entries |-> <<E(0, 14), E(1, 10)>>, kept |-> <<0, 1>>]

ItemC1 ==
  [item |-> "1", catmat |-> <<" ", "7">>, auto |-> Num(8),
   entries |-> <<E(0, 8), E(1, 8)>>, kept |-> <<0, 1>>]

ItemD1 ==
  [item |-> "1", catmat |-> <<>>, auto |-> Num(12),
   entries |-> <<E(0, 14), E(1, 10)>>, kept |-> <<0, 1>>]

ItemD2 ==
  [item |-> "2", catmat |-> <<>>, auto |-> Num(6),
   entries |-> <<E(0, 5), E(1, 7)>>, kept |-> <<0, 1>>]

\* three kept quotations whose mean, 12, is not their median, 11
ItemE1 ==
  [item |-> "1", catmat |-> <<>>, auto |-> Num(12),
   entries |-> <<E(0, 15), E(1, 10), E(2, 11), E(3, 50)>>, kept |-> <<0, 1, 2>>]

\* no usable quotation: the service has no value
ItemF1 ==
  [item |-> "1", catmat |-> <<>>, auto |-> Null, entries |-> <<>>, kept |-> <<>>]

\* an estimate of 120 and one of 120.01, against a last price of 100
ItemG1 ==
  [item |-> "1", catmat |-> <<>>, auto |-> Num(120),
   entries |-> <<E(0, 110), E(1, 130)>>, kept |-> <<0, 1>>]

ItemH1 ==
  [item |-> "1", catmat |-> <<>>, auto |-> Rat(12001, 100),
   entries |-> <<[idx |-> 0, valor |-> Rat(12001, 100)]>>, kept |-> <<0>>]

\* quotations listed in another order than their indices: the entry of
\* index 2 comes first; the service kept 14 and 10
ItemI1 ==
  [item |-> "1", catmat |-> <<>>, auto |-> Num(12),
   entries |-> <<E(2, 14), E(0, 10), E(1, 50)>>, kept |-> <<0, 2>>]

\* an estimate that comes without a keep-set
ItemJ1 ==
  [item |-> "1", catmat |-> <<>>, auto |-> Num(12),
   entries |-> <<E(0, 14), E(1, 10)>>, kept |-> <<>>]

\* a keep-set that names an index, 5, that no quotation of the item has
ItemK1 ==
  [item |-> "1", catmat |-> <<>>, auto |-> Num(12),
   entries |-> <<E(0, 14), E(1, 10), E(2, 50)>>, kept |-> <<0, 5>>]

ItemsOf(f) ==
  CASE f = "A.pdf" -> <<ItemA1>>
    [] f = "K.pdf" -> <<ItemK1>>
    [] f = "J.pdf" -> <<ItemJ1>>
    [] f = "I.pdf" -> <<ItemI1>>
    [] f = "G.pdf" -> <<ItemG1>>
    [] f = "H.pdf" -> <<ItemH1>>
    [] f = "E.pdf" -> <<ItemE1>>
    [] f = "F.pdf" -> <<ItemF1>>
    [] f = "B.pdf" -> <<ItemB1>>
    [] f = "C.pdf" -> <<ItemC1>>
    [] f = "D.pdf" -> <<ItemD1, ItemD2>>

Outcomes == {"ok", "http_error", "throw"}

----------------------------------------------------------------------------
(* The dialog and its table, for every revision: one file of one item *)

CoreFiles == {NoFile, "A.pdf"}
CoreQuotes == {<<"1", "3">>, <<"1", "0">>, <<"9", ",", "5">>}
CoreTexts == {<<" ">>, <<"o", "k", " ">>}
CoreCodes == {"", "OUTLIERS_MANUAL", "OUTRO", "PADRAO_2"}
CoreOptions == {<<>>, JustText1, Outro}
CoreIds == {"1"}
CoreIdx == {0, 1, 2}

Next ==
  \/ \E f \in CoreFiles : fileOnChange(f)
  \/ loadPreview
  \/ \E o \in Outcomes : previewResponse(o, ItemsOf(lp.file))
  \/ \E id \in CoreIds, t \in CoreQuotes : lastQuoteOnChange(id, t)
  \/ \E id \in CoreIds : openManualModal_precos(id)
  \/ \E idx \in CoreIdx : toggleSelect_precos(idx)
  \/ \E v \in CoreOptions : justificativaSelectedOnChange(v)
  \/ \E t \in CoreTexts : justificativaOutroOnChange(t)
  \/ saveManualOverride_precos
  \/ closeModal_precos
  \/ \E id \in CoreIds : clearManualOverride_precos(id)
  \/ \E id \in CoreIds : openManualModal_root(id)
  \/ \E idx \in CoreIdx : toggleModalIndex(idx)
  \/ \E m \in {"media", "mediana"} : setModalMethod(m)
  \/ \E c \in CoreCodes : modalJustCodeOnChange(c)
  \/ \E t \in CoreTexts : setModalJustText(t)
  \/ saveManualOverride_root
  \/ closeModal_root
  \/ \E id \in CoreIds : clearManualOverride_root(id)
  \/ \E id \in CoreIds : openManualFor(id)
  \/ \E idx \in CoreIdx : toggleInclude(idx)
  \/ \E m \in {"media", "mediana"} : setManualMethod(m)
  \/ \E c \in CoreCodes : setManualJust(c)
  \/ \E t \in CoreTexts : setManualJustOther(t)
  \/ saveManual
  \/ closeManual

Spec == Init /\ [][Next]_vars

----------------------------------------------------------------------------
(* The dialog of part_002: the revision of page.tsx that pre-selects the   *)
(* quotations the service kept                                             *)

Files002 == {NoFile, "A.pdf", "J.pdf", "K.pdf"}

Init002 ==
  /\ variant = "p002"
  /\ file = NoFile
  /\ status = ""
  /\ loadingPreview = FALSE
  /\ loadingGenerate = FALSE
  /\ meta = MetaInit
  /\ preview = <<>>
  /\ previewReady = FALSE
  /\ stepPreviewDone = FALSE
  /\ lastQuotes = EmptyMap
  /\ overrides = EmptyMap
  /\ modal = ModalInit(variant)
  /\ lp = Idle
  /\ gen = Idle
  /\ rows = <<>>
  /\ SiteAtPage

Next002 ==
  \/ \E f \in Files002 : fileOnChange(f)
  \/ loadPreview
  \/ \E o \in Outcomes : previewResponse(o, ItemsOf(lp.file))
  \/ \E id \in CoreIds, t \in CoreQuotes : lastQuoteOnChange(id, t)
  \/ \E id \in CoreIds : openManualModal_root(id)
  \/ \E idx \in CoreIdx : toggleModalIndex(idx)
  \/ \E m \in {"media", "mediana"} : setModalMethod(m)
  \/ \E c \in CoreCodes : modalJustCodeOnChange(c)
  \/ \E t \in CoreTexts : setModalJustText(t)
  \/ saveManualOverride_root
  \/ closeModal_root
  \/ \E id \in CoreIds : clearManualOverride_root(id)

Spec002 == Init002 /\ [][Next002]_vars

----------------------------------------------------------------------------
(* The whole precos page: two files of one item, the PNCP lookup, the list *)
(* fields and the ZIP request                                              *)

PageFiles == {NoFile, "B.pdf", "C.pdf"}
PageQuotes == {<<"1", "3">>, <<"1", "0">>}
PageTexts == {<<"o", "k">>}
PageOptions == {JustText1, Outro}
PageIds == {"1"}
PageIdx == {0}
PageMetaTexts == {<<"x">>}
PagePrices == {Rat(1, 2)}

InitPage == Init /\ variant = "precos"

NextPage ==
  \/ \E f \in PageFiles : fileOnChange(f)
  \/ loadPreview
  \/ \E o \in Outcomes : previewResponse(o, ItemsOf(lp.file))
  \/ /\ lp.pc = "hydrate"
     /\ \E o \in Outcomes, price \in PagePrices :
          \E found \in SUBSET Catmats(lp.items) :
             hydrateResponse(o, [c \in found |-> price])
  \/ \E id \in PageIds, t \in PageQuotes : lastQuoteOnChange(id, t)
  \/ \E id \in PageIds : openManualModal_precos(id)
  \/ \E idx \in PageIdx : toggleSelect_precos(idx)
  \/ \E v \in PageOptions : justificativaSelectedOnChange(v)
  \/ \E t \in PageTexts : justificativaOutroOnChange(t)
  \/ saveManualOverride_precos
  \/ closeModal_precos
  \/ \E id \in PageIds : clearManualOverride_precos(id)
  \/ \E f \in {"numeroLista", "nomeLista", "processoSEI", "responsavel"}, t \in PageMetaTexts :
       setMeta(f, t)
  \/ generateZip
  \/ \E o \in Outcomes : generateResponse(o)

SpecPage == InitPage /\ [][NextPage]_vars

----------------------------------------------------------------------------
(* The overrides of two items side by side, in precos *)

PairFiles == {NoFile, "D.pdf"}
PairQuotes == {<<"1", "3">>}
PairOptions == {JustText1, JustText2}
PairIds == {"1", "2"}
PairIdx == {0, 1}

NextPair ==
  \/ \E f \in PairFiles : fileOnChange(f)
  \/ loadPreview
  \/ \E o \in Outcomes : previewResponse(o, ItemsOf(lp.file))
  \/ \E id \in PairIds, t \in PairQuotes : lastQuoteOnChange(id, t)
  \/ \E id \in PairIds : openManualModal_precos(id)
  \/ \E idx \in PairIdx : toggleSelect_precos(idx)
  \/ \E v \in PairOptions : justificativaSelectedOnChange(v)
  \/ saveManualOverride_precos
  \/ closeModal_precos
  \/ \E id \in PairIds : clearManualOverride_precos(id)

SpecPair == InitPage /\ [][NextPair]_vars

----------------------------------------------------------------------------
(* The rows alone: a loaded preview of one item, any typed last price, any *)
(* override the dialog can have stored, and the rows the table makes of it *)

RowFiles == {"A.pdf", "E.pdf", "F.pdf", "G.pdf", "H.pdf", "I.pdf"}

RowQuotes ==
  {<<>>, <<"1", "3">>, <<"1", "2", ",", "0", "0">>, <<"1", "0">>, <<"9", ",", "5">>,
   <<"1", "0", "0">>,
   <<"0">>, <<"-", "5">>, <<"a", "b", "c">>, <<"R", "$", " ", "1", ".", "0", "0", "0", ",", "0", "0">>}

\* The elements of a set of indices in ascending order
RECURSIVE AscSeq(_)
AscSeq(S) ==
  IF S = {} THEN <<>>
  ELSE LET m == CHOOSE x \in S : \A y \in S : x <= y
       IN  <<m>> \o AscSeq(S \ {m})

\* The overrides a saved dialog can have left for a line item.  An item
\* without automatic value is never adjustable, so it has none; only
\* part_006 stores an empty selection.
RowOverrides(v, li) ==
  IF IsNull(li.auto) THEN {}
  ELSE LET all == {li.entries[i].idx : i \in DOMAIN li.entries}
           sels == {AscSeq(S) : S \in (SUBSET all) \ (IF v = "p006" THEN {} ELSE {{}})}
       IN  CASE v = "precos" ->
                  {[modo |-> "Manual", selecionados |-> sel, justificativa |-> JustText1] :
                     sel \in sels}
             [] v \in {"root", "p002", "p005"} ->
                  {[includedIndices |-> sel, method |-> m,
                    justificativaCodigo |-> "OUTRO", justificativaTexto |-> <<"o", "k">>] :
                     sel \in sels, m \in {"media", "mediana"}}
             [] v = "p006" ->
                  {[includedIndices |-> sel, method |-> m,
                    justificativaCodigo |-> "PADRAO_1", justificativaTexto |-> <<>>] :
                     sel \in sels, m \in {"media", "mediana"}}

InitRows ==
  /\ variant \in Variants
  /\ file \in RowFiles
  /\ status = IF variant = "precos" THEN StatusPreviaGerada ELSE StatusPreviaCarregada
  /\ loadingPreview = FALSE
  /\ loadingGenerate = FALSE
  /\ meta = MetaInit
  /\ preview = EncodeAll(variant, ItemsOf(file))
  /\ previewReady = (variant \in {"precos", "p006"})
  /\ stepPreviewDone = (variant = "precos")
  /\ lastQuotes \in {EmptyMap} \cup {[id \in {"1"} |-> t] : t \in RowQuotes}
  /\ overrides \in {EmptyMap} \cup
                   {[id \in {"1"} |-> ov] : ov \in RowOverrides(variant, ItemsOf(file)[1])}
  /\ modal = ModalInit(variant)
  /\ lp = Idle
  /\ gen = Idle
  /\ rows = <<>>
  /\ SiteAtPage

NextRows == Materialize

SpecRows == InitRows /\ [][NextRows]_vars

----------------------------------------------------------------------------
(* parseBRL over typed texts: the text of the last-price field of item 1 is
   drawn and the table is built from it *)

ParseAlphabet == {"R", "$", " ", "1", "2", ".", ",", "a", "-"}

\* The lengths of the drawn texts
ParseLengths == 0 .. 3

ParseTexts ==
  UNION {[1..n -> ParseAlphabet] : n \in ParseLengths}
    \cup {<<"R", "$", " ", "1", ".", "2", "3", "4", ",", "5", "6">>,
          <<"1", "2", "3", "4", ",", "5", "6">>,
          <<"a", "b", "c">>}

ParseVariants == {"precos", "root"}

InitParse ==
  /\ variant \in ParseVariants
  /\ file = "A.pdf"
  /\ status = IF variant = "precos" THEN StatusPreviaGerada ELSE StatusPreviaCarregada
  /\ loadingPreview = FALSE
  /\ loadingGenerate = FALSE
  /\ meta = MetaInit
  /\ preview = EncodeAll(variant, ItemsOf(file))
  /\ previewReady = (variant = "precos")
  /\ stepPreviewDone = (variant = "precos")
  /\ lastQuotes \in {EmptyMap} \cup {[id \in {"1"} |-> t] : t \in ParseTexts}
  /\ overrides = EmptyMap
  /\ modal = ModalInit(variant)
  /\ lp = Idle
  /\ gen = Idle
  /\ rows = <<>>
  /\ SiteAtPage

NextParse == Materialize

SpecParse == InitParse /\ [][NextParse]_vars

----------------------------------------------------------------------------
(* The median over lists of quotations in every order: page.tsx takes it
   for the row of an item whose override has the method "mediana", precos
   shows it in the dialog *)

MedianValues == {1, 2, 3, 4, 5}

MedianLengths == 0 .. 4

MedianLists == UNION {[1..n -> MedianValues] : n \in MedianLengths}

\* The line item whose quotations are the numbers of l, in that order
MedianItem(l) ==
  [item |-> "1", catmat |-> <<>>,
   auto |-> IF l = <<>> THEN Null ELSE Num(l[1]),
   entries |-> [i \in DOMAIN l |-> E(i - 1, l[i])],
   kept |-> [i \in DOMAIN l |-> i - 1]]

MedianVariants == {"precos", "root"}

\* page.tsx: an override by the median over the indices 0 to 3, kept from a
\* longer list when the item has fewer quotations
MedianOverride ==
  [includedIndices |-> <<0, 1, 2, 3>>, method |-> "mediana",
   justificativaCodigo |-> "OUTRO", justificativaTexto |-> <<"o", "k">>]

InitMedian ==
  /\ variant \in MedianVariants
  /\ file = "M.pdf"
  /\ status = IF variant = "precos" THEN StatusPreviaGerada ELSE StatusPreviaCarregada
  /\ loadingPreview = FALSE
  /\ loadingGenerate = FALSE
  /\ meta = MetaInit
  /\ preview \in {EncodeAll(variant, <<MedianItem(l)>>) : l \in MedianLists}
  /\ previewReady = (variant = "precos")
  /\ stepPreviewDone = (variant = "precos")
  /\ lastQuotes = [id \in {"1"} |-> <<"1", "0", "0">>]
  /\ overrides = IF variant = "root" THEN [id \in {"1"} |-> MedianOverride] ELSE EmptyMap
  /\ modal = ModalInit(variant)
  /\ lp = Idle
  /\ gen = Idle
  /\ rows = <<>>
  /\ SiteAtPage

NextMedian ==
  \/ Materialize
  \/ openManualModal_precos("1")
  \/ \E idx \in 0 .. 3 : toggleSelect_precos(idx)
  \/ closeModal_precos

SpecMedian == InitMedian /\ [][NextMedian]_vars

----------------------------------------------------------------------------
(* The coefficient of variation the dialogs of page.tsx and precos show,
   over lists that hold zeros *)

CvValues == {0, 10, 20}

CvLengths == 0 .. 3

CvLists == UNION {[1..n -> CvValues] : n \in CvLengths}

InitCv ==
  /\ variant \in MedianVariants
  /\ file = "M.pdf"
  /\ status = IF variant = "precos" THEN StatusPreviaGerada ELSE StatusPreviaCarregada
  /\ loadingPreview = FALSE
  /\ loadingGenerate = FALSE
  /\ meta = MetaInit
  /\ preview \in {EncodeAll(variant, <<MedianItem(l)>>) : l \in CvLists}
  /\ previewReady = (variant = "precos")
  /\ stepPreviewDone = (variant = "precos")
  /\ lastQuotes = [id \in {"1"} |-> <<"1", "0", "0">>]
  /\ overrides = EmptyMap
  /\ modal = ModalInit(variant)
  /\ lp = Idle
  /\ gen = Idle
  /\ rows = <<>>
  /\ SiteAtPage

NextCv ==
  \/ openManualModal_precos("1")
  \/ \E idx \in 0 .. 2 : toggleSelect_precos(idx)
  \/ closeModal_precos
  \/ openManualModal_root("1")
  \/ \E idx \in 0 .. 2 : toggleModalIndex(idx)
  \/ closeModal_root

SpecCv == InitCv /\ [][NextCv]_vars

----------------------------------------------------------------------------
(* The two requests of precos without the dialog, with answers that arrive:
   a fetch resolves or rejects, so a pending answer is not put off for ever *)

LoadFiles == {NoFile, "B.pdf", "C.pdf"}

PreviewAnswers == \E o \in Outcomes : previewResponse(o, ItemsOf(lp.file))

HydrationAnswers ==
  /\ lp.pc = "hydrate"
  /\ \E o \in Outcomes, price \in PagePrices :
       \E found \in SUBSET Catmats(lp.items) : hydrateResponse(o, [c \in found |-> price])

GenerateAnswers == \E o \in Outcomes : generateResponse(o)

NextLoad ==
  \/ \E f \in LoadFiles : fileOnChange(f)
  \/ loadPreview
  \/ PreviewAnswers
  \/ HydrationAnswers
  \/ \E f \in {"numeroLista", "nomeLista", "processoSEI", "responsavel"}, t \in PageMetaTexts :
       setMeta(f, t)
  \/ generateZip
  \/ GenerateAnswers

SpecLoad ==
  /\ InitPage
  /\ [][NextLoad]_vars
  /\ WF_vars(PreviewAnswers)
  /\ WF_vars(HydrationAnswers)
  /\ WF_vars(GenerateAnswers)

----------------------------------------------------------------------------
(* The ZIP request of precos/page.tsx and page.tsx: the state of a filled
   page is drawn, "Gerar" is pressed and the server answers *)

MetaFilled ==
  [numeroLista |-> <<"7">>, nomeLista |-> <<" ", "L">>, processoSEI |-> <<"S">>,
   responsavel |-> <<"R", " ">>]

PayloadVariants == {"precos", "root"}

InitPayload ==
  /\ variant \in PayloadVariants
  /\ file \in RowFiles
  /\ status = IF variant = "precos" THEN StatusPreviaGerada ELSE StatusPreviaCarregada
  /\ loadingPreview = FALSE
  /\ loadingGenerate = FALSE
  /\ meta = MetaFilled
  /\ preview = EncodeAll(variant, ItemsOf(file))
  /\ previewReady = (variant = "precos")
  /\ stepPreviewDone = (variant = "precos")
  /\ lastQuotes \in {EmptyMap} \cup {[id \in {"1"} |-> t] : t \in RowQuotes}
  /\ overrides \in {EmptyMap} \cup
                   {[id \in {"1"} |-> ov] : ov \in RowOverrides(variant, ItemsOf(file)[1])}
  /\ modal = ModalInit(variant)
  /\ lp = Idle
  /\ gen = Idle
  /\ rows = <<>>
  /\ SiteAtPage

NextPayload ==
  \/ generateZip
  \/ \E o \in Outcomes : generateResponse(o)

SpecPayload == InitPayload /\ [][NextPayload]_vars

----------------------------------------------------------------------------
(* generateZip() called in any state of the form: with and without file,
   with and without preview, each field of the page empty, blank or filled.
   page.tsx has no field for the responsible. *)

HandlerFiles == {NoFile, "A.pdf"}
HandlerTexts == {<<>>, <<" ">>, <<" ", "x">>}

HandlerMetas ==
  IF variant = "precos"
    THEN [{"numeroLista", "nomeLista", "processoSEI", "responsavel"} -> HandlerTexts]
    ELSE {[MetaInit EXCEPT !.numeroLista = a, !.nomeLista = b, !.processoSEI = c] :
            a \in HandlerTexts, b \in HandlerTexts, c \in HandlerTexts}

InitHandler ==
  /\ variant \in PayloadVariants
  /\ file \in HandlerFiles
  /\ preview \in {<<>>, EncodeAll(variant, ItemsOf("A.pdf"))}
  /\ status = IF preview = <<>> THEN ""
              ELSE IF variant = "precos" THEN StatusPreviaGerada ELSE StatusPreviaCarregada
  /\ loadingPreview = FALSE
  /\ loadingGenerate = FALSE
  /\ meta \in HandlerMetas
  /\ previewReady = (variant = "precos" /\ preview # <<>>)
  /\ stepPreviewDone = (variant = "precos" /\ preview # <<>>)
  /\ lastQuotes = EmptyMap
  /\ overrides = EmptyMap
  /\ modal = ModalInit(variant)
  /\ lp = Idle
  /\ gen = Idle
  /\ rows = <<>>
  /\ SiteAtPage

NextHandler ==
  \/ generateZipHandler
  \/ \E o \in Outcomes : generateResponse(o)

SpecHandler == InitHandler /\ [][NextHandler]_vars

----------------------------------------------------------------------------
(* The rows of a preview whose overrides were stored for other data: two   *)
(* items of two quotations each, and overrides over the indices 0 to 3     *)

StaleIndices == {0, 1, 2, 3}
StaleQuotes == {EmptyMap, [id \in {"1"} |-> <<"1", "0">>],
                [id \in {"1", "2"} |-> <<"1", "3">>]}

StaleOverrides(v) ==
  LET sels == {AscSeq(S) : S \in (SUBSET StaleIndices) \ {{}}}
  IN  IF v = "precos"
      THEN {[modo |-> "Manual", selecionados |-> sel, justificativa |-> JustText1] :
              sel \in sels}
      ELSE {[includedIndices |-> sel, method |-> m,
             justificativaCodigo |-> "OUTRO", justificativaTexto |-> <<"o", "k">>] :
              sel \in sels, m \in {"media", "mediana"}}

InitStale ==
  /\ variant \in {"precos", "root"}
  /\ file = "D.pdf"
  /\ status = IF variant = "precos" THEN StatusPreviaGerada ELSE StatusPreviaCarregada
  /\ loadingPreview = FALSE
  /\ loadingGenerate = FALSE
  /\ meta = MetaInit
  /\ preview = EncodeAll(variant, ItemsOf(file))
  /\ previewReady = (variant = "precos")
  /\ stepPreviewDone = (variant = "precos")
  /\ lastQuotes \in StaleQuotes
  /\ \E ids \in SUBSET {"1", "2"} : overrides \in [ids -> StaleOverrides(variant)]
  /\ modal = ModalInit(variant)
  /\ lp = Idle
  /\ gen = Idle
  /\ rows = <<>>
  /\ SiteAtPage

NextStale == Materialize

SpecStale == InitStale /\ [][NextStale]_vars

----------------------------------------------------------------------------
(* Properties *)

\* The typed last price of an item and its automatic value, as numbers
LastPrice(id) == parseBRL(LastQuoteText(id))
AutoValue(id) == FindItem(preview, id).valor_calculado

\* The eligibility rule of the specification: a last price above zero, an
\* automatic value, and 5 * auto <= 6 * last
Eligible(id) ==
  LET last == LastPrice(id)
      auto == AutoValue(id)
  IN  /\ ~IsNull(last)
      /\ last[1] > 0
      /\ ~IsNull(auto)
      /\ 5 * auto[1] * last[2] <= 6 * last[1] * auto[2]

\* The classification of the specification, in its precedence
Classification(id) ==
  IF Has(overrides, id) THEN "OVERRIDDEN"
  ELSE IF Eligible(id) /\ AutoValue(id)[1] * LastPrice(id)[2] < LastPrice(id)[1] * AutoValue(id)[2]
       THEN "NEEDS_ATTENTION"
  ELSE IF Eligible(id) THEN "WITHIN_TOLERANCE"
  ELSE "LOCKED"

\* The state a rendered row shows by the colour of its button
ShownState(r) ==
  LET colour == IF variant = "precos" THEN r.adj.color ELSE r.adjustColor
  IN  CASE colour = "green" -> "OVERRIDDEN"
        [] colour = "red" -> "NEEDS_ATTENTION"
        [] colour = "yellow" -> "WITHIN_TOLERANCE"
        [] colour \in {"disabled", "none"} -> "LOCKED"

FinalValue(r) ==
  IF variant \in {"precos", "p006"} THEN r.valor_final ELSE r.valorFinal

\* C10: in precos, page.tsx and part_006 the row of an item without override
\* shows the item's automatic value as its final value, null included.
C10_FinalIsAuto ==
  \A i \in DOMAIN rows :
     (variant \in {"precos", "root", "p006"} /\ ~Has(overrides, rows[i].item))
        => FinalValue(rows[i]) = AutoValue(rows[i].item)


\* The item the dialog is shown for, NoItem when no dialog is shown
DialogItem ==
  IF ~ModalShown THEN NoItem
  ELSE CASE variant = "precos" -> modal.itemId
         [] variant \in {"root", "p002", "p005"} -> modal.modalItemId
         [] variant = "p006" -> modal.manualItemId

\* What a step that opens the dialog has to respect
OpensOnlyAdjustable ==
  (variant \in {"precos", "root"} /\ DialogItem = NoItem /\ DialogItem' # NoItem)
       => (Has(overrides, DialogItem') \/ Eligible(DialogItem'))

Row(id) == RowOf(tableRows, id)

RowIsManual(r) == r.modo = "Manual"

RowAdjustEnabled(r) == IF variant = "precos" THEN r.adj.enabled ELSE r.allowManual

\* The final value the specification gives an overridden item: the mean or,
\* where the override names the median, the median of the included entries
ManualValue(id) ==
  LET ov == overrides[id]
      li == FindItem(preview, id)
      idxs == IF variant = "precos" THEN ov.selecionados ELSE ov.includedIndices
      vals == IF variant = "precos" THEN SelectedVals(li.rep.vals, idxs)
              ELSE IF variant = "p005" THEN SelectedVals(li.valores_brutos, idxs)
              ELSE IncludedVals(IdxToVal(li.valores_brutos), idxs)
  IN  IF variant # "precos" /\ ov.method = "mediana" THEN median(vals) ELSE mean(vals)

\* C4: in page.tsx, part_005 and precos an item with a saved override keeps a
\* MANUAL row with the manual final value and an enabled adjustment button,
\* whatever its last price has become.
C4_OverrideStaysActive ==
  variant \in {"precos", "root", "p005"} =>
    \A i \in DOMAIN preview :
       Has(overrides, preview[i].item) =>
          /\ RowIsManual(Row(preview[i].item))
          /\ RowAdjustEnabled(Row(preview[i].item))
          /\ FinalValue(Row(preview[i].item)) = ManualValue(preview[i].item)

\* part_005: the override is in the collection, the last price has made the
\* row ineligible, and the row is back to "Auto" with its button disabled
C4_Divergence ==
  /\ variant = "p005"
  /\ Has(overrides, "1")
  /\ Row("1").modo = "Auto"
  /\ ~Row("1").allowManual
  /\ Row("1").valorFinal = AutoValue("1")

\* A press of the dialog's save button
SaveStep == saveManualOverride_precos \/ saveManualOverride_root \/ saveManual

\* The indices selected in the dialog
DialogSelection ==
  CASE variant = "precos" -> modal.selected
    [] variant \in {"root", "p002", "p005"} -> modal.modalSelected
    [] variant = "p006" -> modal.manualIncluded

\* What a save with nothing selected has to do
EmptySaveIsRejected ==
  (variant \in {"precos", "p006"} /\ SaveStep /\ DialogSelection = <<>>)
       => /\ overrides' = overrides
          /\ DialogItem' = DialogItem
          /\ status' = StatusSelecioneValor_precos

\* C6: in precos and part_006 a save pressed with nothing selected puts a
\* message in the status, leaves the overrides as they are and leaves the
\* dialog open.
C6_EmptySaveRejected == [][EmptySaveIsRejected]_vars

\* part_006: an override with no included index is in the collection
C6_Divergence ==
  /\ variant = "p006"
  /\ Has(overrides, "1")
  /\ overrides["1"].includedIndices = <<>>
  /\ ~ModalShown

\* The justification text of a stored override
JustificationOf(ov) ==
  IF variant = "precos" THEN ov.justificativa ELSE ov.justificativaTexto

\* The option of the dialog's justification list and its free text
DialogOption ==
  CASE variant = "precos" -> modal.justificativaSelected
    [] variant \in {"root", "p002", "p005"} -> modal.modalJustCode
    [] variant = "p006" -> modal.manualJust

DialogFreeText ==
  CASE variant = "precos" -> modal.justificativaOutro
    [] variant \in {"root", "p002", "p005"} -> modal.modalJustText
    [] variant = "p006" -> modal.manualJustOther

OtherChosen ==
  IF variant = "precos" THEN DialogOption = Outro ELSE DialogOption = "OUTRO"

CannedChosen ==
  IF variant = "precos" THEN DialogOption \in {JustText1, JustText2}
  ELSE DialogOption \in {"OUTLIERS_MANUAL", "FONTE_PRIORIZADA", "MERCADO_OSCILACAO"}

\* The fixed text of the chosen option
CannedText ==
  IF variant = "precos" THEN DialogOption ELSE JUST_OPTIONS_root[DialogOption]

\* The blanks at both ends of a text removed
RECURSIVE Trimmed(_)
Trimmed(t) ==
  IF t = <<>> THEN <<>>
  ELSE IF IsSpace(t[1]) THEN Trimmed(Tail(t))
  ELSE IF IsSpace(t[Len(t)]) THEN Trimmed(SubSeq(t, 1, Len(t) - 1))
  ELSE t

\* What a step has to keep of the justifications
JustificationIsResolved ==
  variant \in {"precos", "root"} =>
       /\ \A id \in DOMAIN overrides' : JustificationOf(overrides'[id]) # <<>>
       /\ (SaveStep /\ OtherChosen /\ Trimmed(DialogFreeText) = <<>>)
             => overrides' = overrides
       /\ (SaveStep /\ OtherChosen /\ DialogItem' = NoItem)
             => JustificationOf(overrides'[DialogItem]) = Trimmed(DialogFreeText)
       /\ (SaveStep /\ CannedChosen /\ DialogItem' = NoItem)
             => JustificationOf(overrides'[DialogItem]) = CannedText

\* C7: in precos and page.tsx a save under "Other" stores the trimmed free
\* text, and stores nothing when that is empty; and every override of the
\* collection has a non-empty justification.
C7_JustificationResolved == [][JustificationIsResolved]_vars

\* page.tsx: an override stored without any justification
C7_Divergence ==
  /\ variant = "root"
  /\ Has(overrides, "1")
  /\ overrides["1"].justificativaTexto = <<>>

StrictlyAscending(s) == \A i, j \in DOMAIN s : i < j => s[i] < s[j]

\* The justification a save resolves from the dialog
DialogJustification ==
  CASE variant = "precos" ->
         [justificativa |-> IF OtherChosen THEN Trimmed(DialogFreeText)
                            ELSE Trimmed(DialogOption)]
    [] variant = "root" ->
         [justificativaCodigo |-> DialogOption,
          justificativaTexto |-> IF DialogOption \in {"", "OUTRO"} THEN DialogFreeText
                                 ELSE JUST_OPTIONS_root[DialogOption]]
    [] variant = "p006" ->
         [justificativaCodigo |-> DialogOption,
          justificativaTexto |-> IF OtherChosen THEN Trimmed(DialogFreeText) ELSE <<>>]

DialogMethod ==
  IF variant = "p006" THEN modal.manualMethod ELSE modal.modalMethod

\* What a save that goes through has to store
SaveStoresDialog ==
  (variant \in {"precos", "root", "p006"} /\ SaveStep /\ DialogItem # NoItem
        /\ DialogItem' = NoItem)
       => LET stored == overrides'[DialogItem]
              indices == IF variant = "precos" THEN stored.selecionados
                         ELSE stored.includedIndices
          IN  /\ StrictlyAscending(indices)
              /\ Range(indices) = Range(DialogSelection)
              /\ variant # "precos" => stored.method = DialogMethod
              /\ \A f \in DOMAIN DialogJustification : stored[f] = DialogJustification[f]
              /\ DOMAIN stored = DOMAIN DialogJustification \cup
                    (IF variant = "precos" THEN {"modo", "selecionados"}
                     ELSE {"includedIndices", "method"})
              /\ DOMAIN overrides' = DOMAIN overrides \cup {DialogItem}
              /\ \A k \in DOMAIN overrides \ {DialogItem} : overrides'[k] = overrides[k]

\* C8: in precos, page.tsx and part_006 a save that goes through leaves, for
\* the item of the dialog, exactly the override of the dialog: its selected
\* indices in strictly ascending order, its method, its justification, and
\* no other field; the overrides of the other items stay.
C8_SaveReplaces == [][SaveStoresDialog]_vars

\* precos: the selection grown in the order 1, 0, 2 and stored as 0, 1, 2
C8_Witness ==
  /\ variant = "precos"
  /\ ~modal.open
  /\ modal.selected = <<1, 0, 2>>
  /\ Has(overrides, "1")
  /\ overrides["1"].selecionados = <<0, 1, 2>>


\* The three transitions of the lifecycle in precos: a save that goes
\* through, and the clearing of one item
SavesOverride == saveManualOverride_precos /\ DialogItem' = NoItem

ClearsOverride == \E id \in DOMAIN overrides : clearManualOverride_precos(id)

\* A step that changes the overrides is a save or a clear
OnlySaveAndClear == overrides' # overrides => (SavesOverride \/ ClearsOverride)

ResetsPage == loadPreview \/ (\E f \in PageFiles : fileOnChange(f))

\* A step that changes the overrides is a save, a clear, or a reset that
\* leaves no override at all; a save or a clear touches one item only
LifecycleStep ==
  /\ overrides' # overrides =>
        \/ SavesOverride
        \/ ClearsOverride
        \/ ResetsPage /\ overrides' = EmptyMap
  /\ SavesOverride =>
        /\ Has(overrides', DialogItem)
        /\ \A k \in (DOMAIN overrides \cup DOMAIN overrides') \ {DialogItem} :
              Has(overrides, k) /\ Has(overrides', k) /\ overrides'[k] = overrides[k]
  /\ \A id \in DOMAIN overrides :
        clearManualOverride_precos(id) =>
           /\ ~Has(overrides', id)
           /\ \A k \in DOMAIN overrides \ {id} : Has(overrides', k) /\ overrides'[k] = overrides[k]

AutomaticWithoutOverride ==
  \A i \in DOMAIN preview :
     ~Has(overrides, preview[i].item) =>
        /\ RowOf(renderRows_precos, preview[i].item).modo = "Automatico"
        /\ RowOf(renderRows_precos, preview[i].item).valor_final = AutoValue(preview[i].item)

\* The clearing of an item removes the entry of that item and no other; a
\* save for an item without override adds the entry of that item and no other
ClearUndoesSave ==
  /\ \A id \in DOMAIN overrides :
        clearManualOverride_precos(id) =>
           /\ DOMAIN overrides' = DOMAIN overrides \ {id}
           /\ \A k \in DOMAIN overrides' : overrides'[k] = overrides[k]
  /\ (SavesOverride /\ ~Has(overrides, DialogItem)) =>
        /\ DOMAIN overrides' = DOMAIN overrides \cup {DialogItem}
        /\ \A k \in DOMAIN overrides : overrides'[k] = overrides[k]

C10_Divergence ==
  /\ variant = "p006"
  /\ rows # <<>>
  /\ overrides = EmptyMap
  /\ AutoValue("1") = Num(12)
  /\ rows[1].valor_final = Num(11)

\* The raw entries of a line item with the index each one is known by: its
\* position in rep.vals in precos, its idx field in page.tsx
EntriesOf(it) ==
  IF variant = "precos"
  THEN [i \in DOMAIN it.rep.vals |-> [idx |-> i - 1, valor |-> it.rep.vals[i]]]
  ELSE it.valores_brutos

\* The values of the entries whose index is among idxs
ValuesAt(it, idxs) ==
  LET chosen == SelectSeq(EntriesOf(it), LAMBDA e : e.idx \in Range(idxs))
  IN  [i \in DOMAIN chosen |-> chosen[i].valor]

OverrideIndices(ov) == IF variant = "precos" THEN ov.selecionados ELSE ov.includedIndices

\* The method of an override; an override of precos has none and stands for
\* the mean
OverrideMethod(ov) == IF variant = "precos" THEN "media" ELSE ov.method

\* C11: in precos and page.tsx the row of an item with an override has as
\* final value the mean, or with the method "mediana" the median, of the
\* values of exactly the raw entries whose index is in the override.
C11_ManualFinal ==
  \A i \in DOMAIN rows :
     (variant \in {"precos", "root"} /\ Has(overrides, rows[i].item)) =>
        LET ov == overrides[rows[i].item]
            vals == ValuesAt(preview[i], OverrideIndices(ov))
        IN  FinalValue(rows[i]) =
              IF OverrideMethod(ov) = "media" THEN mean(vals) ELSE median(vals)

\* page.tsx: the entries of index 0 and 1 are the second and third of the
\* list, 10 and 50, and their median is 30
C11_Witness ==
  /\ variant = "root"
  /\ file = "I.pdf"
  /\ rows # <<>>
  /\ Has(overrides, "1")
  /\ overrides["1"].includedIndices = <<0, 1>>
  /\ overrides["1"].method = "mediana"
  /\ rows[1].valorFinal = Num(30)

\* The difference to the last price a rendered row shows
Difference(r) ==
  CASE variant = "precos" -> r.dif
    [] variant \in {"root", "p002", "p005"} -> r.diffAbs
    [] variant = "p006" -> r.dif

\* An override none of whose indices is an entry of the item
IsStale(it, ov) == ValuesAt(it, OverrideIndices(ov)) = <<>>

\* C12: in precos and page.tsx every item of the preview gets its row; the
\* row of an item whose override names no existing entry has no final value
\* and no difference; and every other row has the final value its own item
\* and override give it.
C12_StaleOverrideIsNull ==
  rows # <<>> =>
    /\ DOMAIN rows = DOMAIN preview
    /\ \A i \in DOMAIN rows :
          /\ rows[i].item = preview[i].item
          /\ IF ~Has(overrides, rows[i].item)
             THEN FinalValue(rows[i]) = preview[i].valor_calculado
             ELSE LET ov == overrides[rows[i].item]
                      vals == ValuesAt(preview[i], OverrideIndices(ov))
                  IN  /\ IsStale(preview[i], ov) =>
                            IsNull(FinalValue(rows[i])) /\ IsNull(Difference(rows[i]))
                      /\ ~IsStale(preview[i], ov) =>
                            FinalValue(rows[i]) =
                              IF OverrideMethod(ov) = "media" THEN mean(vals) ELSE median(vals)

\* precos: the override of item 1 names the indices 2 and 3 of an item with
\* two quotations; its row has no final value although a last price is
\* typed, and the row of item 2 shows its own manual value
C12_Witness ==
  /\ variant = "precos"
  /\ rows # <<>>
  /\ DOMAIN overrides = {"1", "2"}
  /\ overrides["1"].selecionados = <<2, 3>>
  /\ overrides["2"].selecionados = <<0>>
  /\ Has(lastQuotes, "1")
  /\ IsNull(rows[1].valor_final)
  /\ IsNull(rows[1].dif)
  /\ rows[2].valor_final = Num(5)

\* d = f - l on fractions, by cross-multiplication
IsDifference(d, f, l) ==
  /\ ~IsNull(d)
  /\ d[1] * f[2] * l[2] = (f[1] * l[2] - l[1] * f[2]) * d[2]

\* C13: in precos and page.tsx the difference a row shows is its final value
\* minus the typed last price when the row has a final value and the last
\* price parses to a number, and is null otherwise.
C13_Difference ==
  \A i \in DOMAIN rows :
     variant \in {"precos", "root"} =>
        LET f == FinalValue(rows[i])
            l == LastPrice(rows[i].item)
        IN  IF IsNull(f) \/ IsNull(l) THEN IsNull(Difference(rows[i]))
            ELSE IsDifference(Difference(rows[i]), f, l)

\* precos: an automatic value of 12 against a typed "13" shows -1
C13_Witness ==
  /\ variant = "precos"
  /\ file = "A.pdf"
  /\ rows # <<>>
  /\ overrides = EmptyMap
  /\ LastQuoteText("1") = <<"1", "3">>
  /\ rows[1].dif = Num(-1)

\* The indices the service kept for a line item
KeptIndices(it) ==
  IF variant = "precos" THEN it.rep.mantidos_indices ELSE it.auto_keep_idx

\* The selection the specification opens the dialog with: the indices of
\* the override of the item, else the indices the service kept, else the
\* indices of all entries
Preselection(it) ==
  IF Has(overrides, it.item) THEN Range(OverrideIndices(overrides[it.item]))
  ELSE IF KeptIndices(it) # <<>> THEN Range(KeptIndices(it))
  ELSE {EntriesOf(it)[i].idx : i \in DOMAIN EntriesOf(it)}

\* What a step that opens the dialog has to select
PreselectsOnOpen ==
  (variant \in {"precos", "p002", "p006"} /\ DialogItem = NoItem /\ DialogItem' # NoItem) =>
     LET it == FindItem(preview, DialogItem')
     IN  /\ Range(DialogSelection') = Preselection(it)
         /\ EntriesOf(it) # <<>> => DialogSelection' # <<>>

\* C14: in precos, part_002 and part_006 every step that opens the dialog
\* selects the indices of the item's override when it has one, else the
\* indices the service kept, else all entries; the dialog of an item with
\* entries never opens with nothing selected.
C14_PreselectOnOpen == [][PreselectsOnOpen]_vars

\* precos: the override of the item holds index 0 alone, and the dialog,
\* opened again and not yet touched, shows the two kept quotations
C14_Divergence ==
  /\ variant = "precos"
  /\ modal.open
  /\ Has(overrides, modal.itemId)
  /\ overrides[modal.itemId].selecionados = <<0>>
  /\ modal.selected = <<1, 0>>
  /\ modal.justificativaSelected = <<>>
  /\ modal.justificativaOutro = <<>>

\* A coefficient of variation of 0.25 or more, for values of positive mean:
\* 16 times the population variance is at least the square of the mean
HighDispersion(vals) ==
  LET n == Len(vals)
      m == RDivInt(SumSeq(vals), n)
      variance == RDivInt(SumSqDev(vals, m), n)
  IN  RLe(RMul(m, m), RMul(Num(16), variance))

\* What the opening of the dialog for an item without override has to
\* suggest, and what a save has to store as method
SuggestsByDispersion ==
  /\ (variant \in {"root", "p006"} /\ DialogItem = NoItem /\ DialogItem' # NoItem
         /\ ~Has(overrides, DialogItem')) =>
        LET vals == ValuesAt(FindItem(preview, DialogItem'), DialogSelection')
        IN  vals # <<>> =>
              DialogMethod' = IF HighDispersion(vals) THEN "mediana" ELSE "media"
  /\ (variant \in {"root", "p006"} /\ SaveStep /\ DialogItem # NoItem /\ DialogItem' = NoItem) =>
        overrides'[DialogItem].method = DialogMethod

\* C15: in page.tsx and part_006 the dialog of an item without override
\* opens with the method "mediana" when the coefficient of variation of the
\* pre-selected values is 0.25 or more and with "media" otherwise; a save
\* stores the method selected in the dialog at that moment.
C15_MethodSuggestion == [][SuggestsByDispersion]_vars

\* part_006: the dialog of an item without override shows the kept
\* quotations 14 and 10, whose coefficient of variation is 1/6, under the
\* method "mediana"
C15_Divergence ==
  /\ variant = "p006"
  /\ modal.manualOpen
  /\ ~Has(overrides, modal.manualItemId)
  /\ modal.manualIncluded = <<0, 1>>
  /\ ~HighDispersion(ValuesAt(FindItem(preview, modal.manualItemId), modal.manualIncluded))
  /\ modal.manualMethod = "mediana"

\* The aggregate a method stands for
Aggregate(method, vals) == IF method = "media" THEN mean(vals) ELSE median(vals)

\* What the open dialog displays, against the aggregators over the values
\* of the entries selected at the moment, and against the final value the
\* row gets from the override a save would store
DialogShowsLiveStats ==
  (variant \in {"precos", "root"} /\ ModalShown) =>
     LET it == FindItem(preview, DialogItem)
         vals == ValuesAt(it, DialogSelection)
     IN  IF variant = "precos"
         THEN /\ dialogStats_precos.n = Len(vals)
              /\ dialogStats_precos.mean = mean(vals)
              /\ dialogStats_precos.median = median(vals)
              /\ dialogStats_precos.cv = cv(vals)
              /\ dialogStats_precos.valorFinal = Aggregate("media", vals)
              /\ dialogStats_precos.valorFinal =
                    computeManualFinal(it, [modo |-> "Manual",
                                            selecionados |-> SortIdx(modal.selected)])
         ELSE /\ modalStats_root.included = Len(vals)
              /\ modalStats_root.excluded = Len(EntriesOf(it)) - Len(vals)
              /\ modalStats_root.mean = mean(vals)
              /\ modalStats_root.median = median(vals)
              /\ modalStats_root.cv = cv(vals)
              /\ modalStats_root.finalVal = Aggregate(modal.modalMethod, vals)
              /\ modalStats_root.finalVal =
                    manualFinal_root(it, [includedIndices |-> SortIdx(modal.modalSelected),
                                          method |-> modal.modalMethod])

\* A step inside the open dialog that changes the selection or the method
EditsDialog ==
  /\ DialogItem # NoItem
  /\ DialogItem' = DialogItem
  /\ \/ DialogSelection' # DialogSelection
     \/ (variant # "precos" /\ DialogMethod' # DialogMethod)

\* Such a step starts no request
EditsWithoutRequest ==
  (variant \in {"precos", "root"} /\ EditsDialog) =>
     /\ lp' = lp
     /\ gen' = gen
     /\ loadingPreview' = loadingPreview
     /\ loadingGenerate' = loadingGenerate

\* C16: in precos and page.tsx the open dialog always displays the count,
\* mean, median and coefficient of variation of the values selected at the
\* moment (page.tsx also the count of the others) and as final value their
\* mean or, under the method "mediana" of page.tsx, their median, which is
\* the final value the row gets from a save in that state; a toggle or a
\* change of method starts no request.
C16_LiveStats == []DialogShowsLiveStats /\ [][EditsWithoutRequest]_vars

\* page.tsx: after toggles and a change of method the dialog holds the
\* quotations 10 and 50 under "media" and displays 30
C16_Witness ==
  /\ variant = "root"
  /\ ModalShown
  /\ modal.modalSelected = <<1, 2>>
  /\ modal.modalMethod = "media"
  /\ modalStats_root.finalVal = Num(30)
  /\ modalStats_root.excluded = 1

\* The indices the entries of a line item are known by
EntryIndices(it) == {EntriesOf(it)[i].idx : i \in DOMAIN EntriesOf(it)}

\* Every override names at least one index, and only indices of entries of
\* its own line item
OverridesReferenceEntries ==
  variant \in {"precos", "p002"} =>
     \A id \in DOMAIN overrides :
        /\ OverrideIndices(overrides[id]) # <<>>
        /\ HasItem(preview, id)
        /\ Range(OverrideIndices(overrides[id])) \subseteq EntryIndices(FindItem(preview, id))

\* A save whose selection names an index that is no entry of the item
\* leaves the overrides as they are
ForeignSaveIsRejected ==
  (variant \in {"precos", "p002"} /\ SaveStep /\ DialogItem # NoItem
      /\ ~(Range(DialogSelection) \subseteq EntryIndices(FindItem(preview, DialogItem))))
     => overrides' = overrides

----------------------------------------------------------------------------
(* The payload of the ZIP request *)

\* A step that presses "Gerar" and sends the request
GenerateStep == gen.pc = "idle" /\ gen'.pc = "generate"

\* The overrides and the last prices as the payload p carries them
PayloadOverrides(p) == IF variant = "precos" THEN p.overrides ELSE p.manual_overrides

PayloadIndices(e) == IF variant = "precos" THEN e.selecionados ELSE e.included_indices

PayloadMethod(e) == IF variant = "precos" THEN "media" ELSE e.method

PayloadJustification(e) ==
  IF variant = "precos" THEN e.justificativa
  ELSE <<e.justificativa_codigo, e.justificativa_texto>>

OverrideJustification(ov) ==
  IF variant = "precos" THEN ov.justificativa
  ELSE <<ov.justificativaCodigo, ov.justificativaTexto>>

\* The number a payload entry of last_quotes stands for: precos sends the
\* typed text
PayloadPrice(v) == IF variant = "precos" THEN parseBRL(v) ELSE v

\* The items of the preview for which a last price is present
ItemsWithLastPrice ==
  {preview[i].item : i \in {j \in DOMAIN preview : ~IsNull(LastPrice(preview[j].item))}}

PayloadCarriesOverrides(p) ==
  /\ DOMAIN PayloadOverrides(p) = DOMAIN overrides
  /\ \A id \in DOMAIN overrides :
        /\ PayloadIndices(PayloadOverrides(p)[id]) = OverrideIndices(overrides[id])
        /\ PayloadMethod(PayloadOverrides(p)[id]) = OverrideMethod(overrides[id])
        /\ PayloadJustification(PayloadOverrides(p)[id]) = OverrideJustification(overrides[id])

PayloadCarriesLastPrices(p) ==
  /\ DOMAIN p.last_quotes = ItemsWithLastPrice
  /\ \A id \in DOMAIN p.last_quotes : PayloadPrice(p.last_quotes[id]) = LastPrice(id)

PayloadMatchesState ==
  (variant \in PayloadVariants /\ GenerateStep) =>
     /\ PayloadCarriesOverrides(gen'.payload)
     /\ PayloadCarriesLastPrices(gen'.payload)

\* C18: in precos and page.tsx the payload of a generate request holds, from
\* the state at the moment "Gerar" is pressed, one entry with the indices,
\* the method and the justification for every item with an override and for
\* no other, and one last price for every item that has one and for no
\* other.
C18_Payload == [][PayloadMatchesState]_vars

\* precos: the request in flight carries under last_quotes an entry for an
\* item whose last-price field holds no price (empty or unreadable text)
C18_Divergence ==
  /\ variant = "precos"
  /\ gen.pc = "generate"
  /\ Has(gen.payload.last_quotes, "1")
  /\ IsNull(parseBRL(gen.payload.last_quotes["1"]))
  /\ DOMAIN gen.payload.overrides = DOMAIN overrides

----------------------------------------------------------------------------
(* parseBRL *)

\* The text without a currency symbol at its start (and without the one
\* blank that may follow the symbol)
WithoutLeadingSymbol(t) ==
  IF Len(t) >= 2 /\ t[1] \in {"R", "r"} /\ t[2] = "$"
  THEN IF Len(t) >= 3 /\ t[3] = " " THEN SubSeq(t, 4, Len(t)) ELSE SubSeq(t, 3, Len(t))
  ELSE t

\* The amount a typed text stands for: the leading symbol stripped, every
\* "." dropped, every "," read as the decimal point; null for the empty
\* text and for every text that is then no decimal number
AmountOf(input) ==
  LET u == WithoutLeadingSymbol(Trim(input))
      noDots == SelectSeq(u, LAMBDA c : c # ".")
      dec == [i \in DOMAIN noDots |-> IF noDots[i] = "," THEN "." ELSE noDots[i]]
  IN  IF dec = <<>> THEN Null ELSE NumberOf(dec)

\* The result of parseBRL for the text of the last-price field of a row:
\* page.tsx keeps it in the row, precos parses in the render
ParsedLast(r) ==
  IF variant = "root" THEN r.last ELSE parseBRL(LastQuoteText(r.item))

ParseExamples ==
  /\ parseBRL(<<"R", "$", " ", "1", ".", "2", "3", "4", ",", "5", "6">>) = Rat(123456, 100)
  /\ parseBRL(<<"1", "2", "3", "4", ",", "5", "6">>) = Rat(123456, 100)
  /\ parseBRL(<<>>) = Null
  /\ parseBRL(<<"a", "b", "c">>) = Null

\* C19: in precos and page.tsx parseBRL gives for every text the amount
\* read after stripping a leading currency symbol, dropping every "." and
\* reading "," as the decimal point, and null when that is no finite number
\* or the trimmed text is empty; "R$ 1.234,56" and "1234,56" give 1234.56,
\* "" and "abc" give null.
C19_ParseAmount ==
  /\ ParseExamples
  /\ \A i \in DOMAIN rows : ParsedLast(rows[i]) = AmountOf(LastQuoteText(rows[i].item))

\* page.tsx: the text "1R$", which has no leading symbol and is no number,
\* is parsed as 1
C19_Divergence ==
  /\ variant = "root"
  /\ LastQuoteText("1") = <<"1", "R", "$">>
  /\ rows # <<>>
  /\ rows[1].last = Num(1)

----------------------------------------------------------------------------
(* median *)

\* The k-th smallest number of a list, by counting: fewer than k elements
\* are below it and at least k are not above it
KthSmallest(vals, k) ==
  CHOOSE v \in Range(vals) :
     /\ Cardinality({i \in DOMAIN vals : RLt(vals[i], v)}) < k
     /\ Cardinality({i \in DOMAIN vals : RLe(vals[i], v)}) >= k

\* The middle of a list: null for the empty list, the middle element of the
\* ascending order for an odd count, the average of the two middle ones for
\* an even count
MiddleOf(vals) ==
  LET n == Len(vals)
  IN  IF n = 0 THEN Null
      ELSE IF n % 2 = 1 THEN KthSmallest(vals, (n + 1) \div 2)
      ELSE RDivInt(RAdd(KthSmallest(vals, n \div 2), KthSmallest(vals, (n \div 2) + 1)), 2)

\* The quotations of the item of the preview, in the order of the list
QuotedValues == LET es == EntriesOf(preview[1]) IN [i \in DOMAIN es |-> es[i].valor]

\* The values the dialog of precos has selected, in the order of its entries
SelectedValues ==
  LET chosen == SelectSeq(modal.entries, LAMBDA e : e.idx \in Range(modal.selected))
  IN  [i \in DOMAIN chosen |-> chosen[i].valor]

MedianExamples ==
  /\ median(<<Num(4), Num(1), Num(3), Num(2)>>) = Rat(5, 2)
  /\ median(<<Num(5), Num(1), Num(3)>>) = Num(3)
  /\ median(<<>>) = Null

\* page.tsx: the row under the override by the median shows the middle of
\* the quotations, and the list handed to median is as it was
RowShowsMiddle ==
  (variant = "root" /\ rows # <<>>) =>
     /\ rows[1].valorFinal = MiddleOf(QuotedValues)
     /\ median(QuotedValues) = MiddleOf(QuotedValues)
     /\ medianLeaves(QuotedValues) = QuotedValues

\* precos: the median of the dialog is median of the selected values
DialogShowsMiddle ==
  (variant = "precos" /\ modal.open) =>
     /\ dialogStats_precos.median = median(SelectedValues)
     /\ dialogStats_precos.median = MiddleOf(SelectedValues)

----------------------------------------------------------------------------
(* cv *)

RECURSIVE SumOfSquares(_)
SumOfSquares(vals) ==
  IF vals = <<>> THEN Num(0) ELSE RAdd(RMul(Head(vals), Head(vals)), SumOfSquares(Tail(vals)))

\* The square of the population standard deviation over the mean, with the
\* sign of the mean: (sum of squares / n - mean^2) / mean^2; null for the
\* empty list and for a mean of zero
DispersionOf(vals) ==
  LET n == Len(vals)
  IN  IF n = 0 THEN Null
      ELSE LET m == RDivInt(SumSeq(vals), n)
           IN  IF m[1] = 0 THEN Null
               ELSE LET var == RSub(RDivInt(SumOfSquares(vals), n), RMul(m, m))
                        sq == Rat(var[1] * m[2] * m[2], var[2] * m[1] * m[1])
                    IN  IF m[1] < 0 THEN Rat(-sq[1], sq[2]) ELSE sq

\* The values the dialog of page.tsx has included
IncludedValues == ValuesAt(FindItem(preview, modal.modalItemId), modal.modalSelected)

CvExamples ==
  /\ cv(<<Num(10), Num(10), Num(10)>>) = Num(0)
  /\ cv(<<Num(0), Num(0), Num(0)>>) = Null
  /\ cv(<<>>) = Null

DialogCv_root ==
  (variant = "root" /\ ModalShown) => modalStats_root.cv = DispersionOf(IncludedValues)

DialogCv_precos ==
  (variant = "precos" /\ modal.open) => dialogStats_precos.cv = DispersionOf(SelectedValues)

\* C21: in page.tsx and precos the coefficient of variation is the
\* population standard deviation (variance over n) divided by the mean (kept
\* here as its signed square); it is null for an empty list and for a mean
\* of exactly zero, and 0 for equal non-zero values: 0 for 10, 10, 10 and
\* null for 0, 0, 0.
C21_Cv == CvExamples /\ DialogCv_root /\ DialogCv_precos

\* page.tsx: the dialog over the quotations 10 and 20 shows the squared
\* coefficient 25 / 225 = 1/9
C21_Witness ==
  /\ variant = "root"
  /\ ModalShown
  /\ IncludedValues = <<Num(10), Num(20)>>
  /\ modalStats_root.cv = Rat(1, 9)

----------------------------------------------------------------------------
(* src/middleware.ts and src/auth.ts: the routes.  A path is the sequence of
   its pieces, <<"/", "_next", "/", "static">> for /_next/static; no piece
   is the beginning of another, so a path begins with another path exactly
   when its sequence does *)

\* pathname.startsWith(prefix)
startsWith(path, prefix) ==
  Len(path) >= Len(prefix) /\ SubSeq(path, 1, Len(prefix)) = prefix

PathRoot == <<"/">>
PathApi == <<"/", "api">>
PathApiAuth == <<"/", "api", "/", "auth">>
PathNext == <<"/", "_next">>
PathNextStatic == <<"/", "_next", "/", "static">>
PathNextImage == <<"/", "_next", "/", "image">>
PathFavicon == <<"/", "favicon.ico">>
PathPrecos == <<"/", "precos">>

\* authorized() that lets every request pass
authorized_open(user, pathname) == TRUE

\* callbacks.authorized({ auth, request })
authorized(user, pathname) ==
  IF pathname = PathRoot THEN TRUE
  ELSE IF startsWith(pathname, PathApiAuth) THEN TRUE
  ELSE IF startsWith(pathname, PathNext) THEN TRUE
  ELSE IF pathname = PathFavicon THEN TRUE
  ELSE user # NoUser

\* config.matcher: "/((?!api|_next/static|_next/image|favicon.ico).*)"
matcher(pathname) ==
  /\ startsWith(pathname, PathRoot)
  /\ ~startsWith(pathname, PathApi)
  /\ ~startsWith(pathname, PathNextStatic)
  /\ ~startsWith(pathname, PathNextImage)
  /\ ~startsWith(pathname, PathFavicon)

\* A request for a path: the middleware runs on the paths the matcher
\* takes, and sends a request it does not authorize to the sign-in page "/"
request(pathname) ==
  /\ req' = [path |-> pathname, user |-> session, matched |-> matcher(pathname),
             authorized |-> matcher(pathname) /\ authorized(session, pathname)]
  /\ location' = IF matcher(pathname) /\ ~authorized(session, pathname)
                  THEN [path |-> PathRoot, error |-> NoError]
                  ELSE [path |-> pathname, error |-> NoError]
  /\ UNCHANGED <<env, loginRev, session, storage, call, catmat>>
  /\ UNCHANGED pageVars

\* The paths requested
Paths ==
  {PathRoot, PathPrecos, <<"/", "catmat">>, <<"/", "arquivamentos">>, <<"/", "manual">>,
   <<"/", "precos", "/", "x">>,
   <<"/", "api", "/", "auth", "/", "session">>, <<"/", "api", "/", "generate">>,
   <<"/", "api", "x">>,
   <<"/", "_next", "/", "static", "/", "x">>, <<"/", "_next", "/", "image">>,
   <<"/", "_next", "/", "data", "/", "x">>, <<"/", "_next", "x">>,
   PathFavicon, <<"/", "favicon.ico", "x">>}

----------------------------------------------------------------------------
(* src/app/login-actions.ts, its earlier revisions src/unnamed/part_000 and
   part_001, and src/app/components/Header.tsx *)

LoginRevs == {"login-actions", "part_000", "part_001"}

\* How signIn("credentials", ...) of Auth.js ends: it sets the session cookie
\* and throws the redirect of Next to redirectTo, or throws a sign-in error,
\* or throws another error (the data base)
SignInOutcomes == {"redirect", "auth_error", "throw"}

\* authorize() of auth.ts returns null when login or password is empty, so
\* such a sign-in fails
signInOutcomes(login, password) ==
  IF Trim(login) = <<>> \/ password = <<>> THEN {"auth_error"} ELSE SignInOutcomes

\* The credential "login" a revision hands to signIn: part_000 sends the
\* field "email" instead, which authorize() does not read
loginCredential(rev, login) == IF rev = "part_000" THEN <<>> ELSE Trim(login)

\* isNextRedirectError(e)
isNextRedirectError(outcome) == outcome = "redirect"

\* try { await signIn(...) } catch of doLogin and doQuickLogin: where the
\* browser ends.  login-actions.ts throws the redirect of Next on, the
\* earlier revisions catch it like every error
afterSignIn(rev, outcome) ==
  IF rev = "login-actions" /\ isNextRedirectError(outcome)
  THEN [path |-> PathPrecos, error |-> NoError]
  ELSE [path |-> PathRoot, error |-> "1"]

\* The catch of every revision treats the redirect of Next as an error
afterSignIn_catchAll(rev, outcome) == [path |-> PathRoot, error |-> "1"]

\* doLogin(formData), the action of the form of the login page "/"
doLogin(login, password, outcome) ==
  /\ location.path = PathRoot
  /\ outcome \in signInOutcomes(loginCredential(loginRev, login), password)
  /\ call' = [action |-> "doLogin", signIn |-> TRUE]
  /\ session' = IF outcome = "redirect" THEN "user" ELSE session
  /\ location' = afterSignIn(loginRev, outcome)
  /\ UNCHANGED <<env, loginRev, storage, req, catmat>>
  /\ UNCHANGED pageVars

\* String.prototype.toLowerCase on the values the environment variables take
toLowerCase(t) ==
  CASE t = "Production" -> "production"
    [] t = "TRUE" -> "true"
    [] OTHER -> t

\* process.env.ADMIN_USERNAME || process.env.ADMIN_EMAIL || "", trimmed
adminLogin == Trim(IF env.ADMIN_USERNAME # <<>> THEN env.ADMIN_USERNAME ELSE env.ADMIN_EMAIL)

\* The checks without the one of VERCEL_ENV
quickLoginError_anyEnv ==
  IF toLowerCase(env.ALLOW_QUICK_LOGIN) # "true" THEN "quick_login_disabled"
  ELSE IF adminLogin = <<>> \/ env.ADMIN_PASSWORD = <<>> THEN "missing_admin_env"
  ELSE NoError

\* The checks of doQuickLogin before its signIn: the error it redirects
\* with, or none
quickLoginError ==
  IF toLowerCase(env.VERCEL_ENV) = "production" THEN "quick_login_disabled"
  ELSE IF toLowerCase(env.ALLOW_QUICK_LOGIN) # "true" THEN "quick_login_disabled"
  ELSE IF adminLogin = <<>> \/ env.ADMIN_PASSWORD = <<>> THEN "missing_admin_env"
  ELSE NoError

\* doQuickLogin(), the action of the quick-login button of the login page
doQuickLogin(outcome) ==
  /\ location.path = PathRoot
  /\ loginRev = "login-actions"
  /\ IF quickLoginError # NoError
     THEN /\ call' = [action |-> "doQuickLogin", signIn |-> FALSE]
          /\ location' = [path |-> PathRoot, error |-> quickLoginError]
          /\ outcome = "auth_error"
          /\ UNCHANGED session
     ELSE /\ outcome \in signInOutcomes(adminLogin, env.ADMIN_PASSWORD)
          /\ call' = [action |-> "doQuickLogin", signIn |-> TRUE]
          /\ session' = IF outcome = "redirect" THEN "user" ELSE session
          /\ location' = afterSignIn(loginRev, outcome)
  /\ UNCHANGED <<env, loginRev, storage, req, catmat>>
  /\ UNCHANGED pageVars

\* The pages of the (auth) layout, which renders the Header
AppPages ==
  {PathPrecos, <<"/", "catmat">>, <<"/", "arquivamentos">>, <<"/", "manual">>}

\* logout() of Header.tsx: removes the key of the retired client-side guard
\* and replaces the route by "/", which the middleware lets pass
logout ==
  /\ location.path \in AppPages
  /\ storage' = storage \ {AUTH_KEY}
  /\ location' = [path |-> PathRoot, error |-> NoError]
  /\ req' = [path |-> PathRoot, user |-> session, matched |-> matcher(PathRoot),
             authorized |-> matcher(PathRoot) /\ authorized(session, PathRoot)]
  /\ call' = [action |-> "logout", signIn |-> FALSE]
  /\ UNCHANGED <<env, loginRev, session, catmat>>
  /\ UNCHANGED pageVars

----------------------------------------------------------------------------
(* The site: requests, log-in and log-out of a browser *)

\* The page state under the site specifications: the price page as built
PageAtRest ==
  /\ variant = "precos"
  /\ file = NoFile
  /\ status = ""
  /\ loadingPreview = FALSE
  /\ loadingGenerate = FALSE
  /\ meta = MetaInit
  /\ preview = <<>>
  /\ previewReady = FALSE
  /\ stepPreviewDone = FALSE
  /\ lastQuotes = EmptyMap
  /\ overrides = EmptyMap
  /\ modal = ModalInit("precos")
  /\ lp = Idle
  /\ gen = Idle
  /\ rows = <<>>

Logins == {<<>>, <<"a", "n", "a">>}
Passwords == {<<>>, <<"p", "w">>}

InitSite ==
  /\ PageAtRest
  /\ env = EnvProduction
  /\ loginRev \in LoginRevs
  /\ session = NoUser
  /\ storage \in {{}, {AUTH_KEY}}
  /\ location = [path |-> PathRoot, error |-> NoError]
  /\ call = NoCall
  /\ req = NoRequest
  /\ catmat = [rawInput |-> <<>>, parsed |-> <<>>]

NextSite ==
  \/ \E p \in Paths : request(p)
  \/ \E l \in Logins, pw \in Passwords, o \in SignInOutcomes : doLogin(l, pw, o)
  \/ logout

SpecSite == InitSite /\ [][NextSite]_vars

----------------------------------------------------------------------------
(* Route protection *)

\* The path begins with the prefix
Under(path, prefix) ==
  Len(prefix) <= Len(path) /\ \A i \in DOMAIN prefix : path[i] = prefix[i]

\* The paths open to a request without a user that the middleware handles
OpenToAll(path) ==
  path = PathRoot \/ Under(path, PathApiAuth) \/ Under(path, PathNext) \/ path = PathFavicon

\* The API, the static assets and the login page
Unprotected(path) ==
  path = PathRoot \/ Under(path, PathApi) \/ Under(path, PathNext) \/ Under(path, PathFavicon)

\* The request was answered with the page or resource asked for
Served == ~req.matched \/ req.authorized

----------------------------------------------------------------------------
(* doLogin *)

OnErrorPage(loc) == loc.path = PathRoot /\ loc.error = "1"

\* The sign-in of the step succeeded: the session cookie was set
SignedIn == session' = "user"

\* A run of doLogin ends on "/?error=1" exactly when its sign-in failed
LoginEndsRight ==
  (session = NoUser /\ \E l \in Logins, pw \in Passwords, o \in SignInOutcomes :
                          doLogin(l, pw, o)) =>
     (OnErrorPage(location') <=> ~SignedIn)

\* C23: in every revision of doLogin the browser ends on "/?error=1"
\* exactly when the sign-in failed: the redirect a successful signIn raises
\* is passed on, so a log-in with valid credentials never ends on the error
\* page.
C23_LoginRedirect == [][LoginEndsRight]_vars

\* part_001: the sign-in succeeded, the session is set, and the browser is
\* on "/?error=1"
C23_Divergence ==
  /\ loginRev = "part_001"
  /\ call.action = "doLogin"
  /\ session = "user"
  /\ OnErrorPage(location)

----------------------------------------------------------------------------
(* Quick login: every configuration of the environment, a browser on the
   login page *)

EnvVercel == {"", "production", "Production", "preview"}
EnvAllow == {"", "true", "TRUE", "1"}
EnvAdminNames == {<<>>, <<" ">>, <<"a", "d", "m">>}
EnvAdminEmails == {<<>>, <<"a", "@", "x">>}
EnvAdminPasswords == {<<>>, <<"p", "w">>}

InitQuick ==
  /\ PageAtRest
  /\ env \in [VERCEL_ENV : EnvVercel, ALLOW_QUICK_LOGIN : EnvAllow,
               ADMIN_USERNAME : EnvAdminNames, ADMIN_EMAIL : EnvAdminEmails,
               ADMIN_PASSWORD : EnvAdminPasswords]
  /\ loginRev = "login-actions"
  /\ session = NoUser
  /\ storage = {}
  /\ location = [path |-> PathRoot, error |-> NoError]
  /\ call = NoCall
  /\ req = NoRequest
  /\ catmat = [rawInput |-> <<>>, parsed |-> <<>>]

NextQuick ==
  \/ \E o \in SignInOutcomes : doQuickLogin(o)
  \/ \E p \in {PathRoot, PathPrecos} : request(p)

SpecQuick == InitQuick /\ [][NextQuick]_vars

----------------------------------------------------------------------------
(* doQuickLogin *)

\* ALLOW_QUICK_LOGIN is true and VERCEL_ENV is not production, in any case
\* of the letters
QuickLoginOn ==
  /\ env.ALLOW_QUICK_LOGIN \in {"true", "TRUE"}
  /\ env.VERCEL_ENV \notin {"production", "Production"}

\* An admin login (user name, or e-mail when there is no user name) that is
\* not blank, and a password
AdminGiven ==
  /\ env.ADMIN_PASSWORD # <<>>
  /\ \/ ~Blank(env.ADMIN_USERNAME)
     \/ env.ADMIN_USERNAME = <<>> /\ ~Blank(env.ADMIN_EMAIL)

QuickStep == \E o \in SignInOutcomes : doQuickLogin(o)

QuickLoginGuarded ==
  QuickStep =>
     /\ ~QuickLoginOn =>
          /\ location' = [path |-> PathRoot, error |-> "quick_login_disabled"]
          /\ ~call'.signIn
          /\ session' = session
     /\ (QuickLoginOn /\ ~AdminGiven) =>
          /\ location' = [path |-> PathRoot, error |-> "missing_admin_env"]
          /\ ~call'.signIn
          /\ session' = session
     /\ (QuickLoginOn /\ AdminGiven) => call'.signIn

\* C24: doQuickLogin calls signIn only when ALLOW_QUICK_LOGIN is true and
\* VERCEL_ENV is not production; in every other configuration it redirects
\* to /?error=quick_login_disabled without calling signIn, and when the
\* admin login or the password is missing it redirects to
\* /?error=missing_admin_env without calling signIn.
C24_QuickLogin == [][QuickLoginGuarded]_vars

\* In production with ALLOW_QUICK_LOGIN=true and the admin account set, the
\* button was pressed: no signIn, no session, the browser is on
\* /?error=quick_login_disabled
C24_Witness ==
  /\ env.VERCEL_ENV = "production"
  /\ env.ALLOW_QUICK_LOGIN = "true"
  /\ AdminGiven
  /\ call = [action |-> "doQuickLogin", signIn |-> FALSE]
  /\ location = [path |-> PathRoot, error |-> "quick_login_disabled"]
  /\ session = NoUser

----------------------------------------------------------------------------
(* Log-out *)

\* The last action of the user was "Sair": no log-in since
LoggedOut == call.action = "logout"

\* C25: after logout of the Header no user is authenticated, and a request
\* for a page of the application made before the next log-in is not
\* authorized.
C25_LogoutEndsSession ==
  LoggedOut =>
     /\ session = NoUser
     /\ req.path \in AppPages => ~req.authorized

\* After "Sair" the session cookie is still there, and the request for
\* /precos that followed was authorized and served
C25_Divergence ==
  /\ LoggedOut
  /\ AUTH_KEY \notin storage
  /\ session = "user"
  /\ req.path = PathPrecos
  /\ req.authorized
  /\ location.path = PathPrecos

----------------------------------------------------------------------------
(* src/app/(auth)/catmat/page.tsx: the pasted list of CATMAT codes *)

LF == "\n"
CR == "\r"
TAB == "\t"

\* raw.replace(/\r\n/g, "\n").replace(/\r/g, "\n")
RECURSIVE normalizeLineEnds(_)
normalizeLineEnds(s) ==
  IF s = <<>> THEN <<>>
  ELSE IF s[1] = CR /\ Len(s) >= 2 /\ s[2] = LF
       THEN <<LF>> \o normalizeLineEnds(SubSeq(s, 3, Len(s)))
  ELSE IF s[1] = CR THEN <<LF>> \o normalizeLineEnds(Tail(s))
  ELSE <<s[1]>> \o normalizeLineEnds(Tail(s))

\* String.prototype.split(sep) for a separator of one character
RECURSIVE split(_, _)
split(s, sep) ==
  IF \A i \in DOMAIN s : s[i] # sep THEN <<s>>
  ELSE LET k == CHOOSE i \in DOMAIN s : s[i] = sep /\ \A j \in 1 .. (i - 1) : s[j] # sep
       IN  <<SubSeq(s, 1, k - 1)>> \o split(SubSeq(s, k + 1, Len(s)), sep)

\* normalizeCatmatToken(token): token.replace(/\D+/g, "")
normalizeCatmatToken(token) == SelectSeq(token, IsDigit)

\* return out.filter(...): the first row of every code
RECURSIVE keepFirst(_, _)
keepFirst(out, seen) ==
  IF out = <<>> THEN <<>>
  ELSE IF Head(out).catmat \in seen THEN keepFirst(Tail(out), seen)
  ELSE <<Head(out)>> \o keepFirst(Tail(out), seen \cup {Head(out).catmat})

\* The loop over the lines: a row with the next seq for every line whose
\* first cell holds a digit
RECURSIVE catmatRows(_, _)
catmatRows(lines, seq) ==
  IF lines = <<>> THEN <<>>
  ELSE LET firstCell == split(Head(lines), TAB)[1]
           code == normalizeCatmatToken(firstCell)
       IN  IF code = <<>> THEN catmatRows(Tail(lines), seq)
           ELSE <<[seq |-> seq, catmat |-> code]>> \o catmatRows(Tail(lines), seq + 1)

parseCatmatList(raw) == keepFirst(catmatRows(split(normalizeLineEnds(raw), LF), 1), {})

\* The <textarea>: setRawInput(e.target.value), and parsed follows by useMemo
rawInputOnChange(text) ==
  /\ text # catmat.rawInput
  /\ catmat' = [rawInput |-> text, parsed |-> parseCatmatList(text)]
  /\ UNCHANGED <<env, loginRev, session, storage, location, call, req>>
  /\ UNCHANGED pageVars

CatmatAlphabet == {"1", "2", "a", " ", TAB, LF, CR}

CatmatLengths == 0 .. 4

CatmatTexts == UNION {[1..n -> CatmatAlphabet] : n \in CatmatLengths}

InitCatmat ==
  /\ PageAtRest
  /\ env = EnvProduction
  /\ loginRev = "login-actions"
  /\ session = "user"
  /\ storage = {}
  /\ location = [path |-> <<"/", "catmat">>, error |-> NoError]
  /\ call = NoCall
  /\ req = NoRequest
  /\ catmat = [rawInput |-> <<>>, parsed |-> <<>>]

\* limparTudo(): the "Limpar" button empties the field (and the results of
\* the query, which are no part of this state)
limparTudo ==
  /\ catmat.rawInput # <<>>
  /\ catmat' = [rawInput |-> <<>>, parsed |-> parseCatmatList(<<>>)]
  /\ UNCHANGED <<env, loginRev, session, storage, location, call, req>>
  /\ UNCHANGED pageVars

\* A text is pasted into the empty field, or the field is cleared
NextCatmat ==
  \/ \E t \in CatmatTexts : catmat.rawInput = <<>> /\ rawInputOnChange(t)
  \/ limparTudo

SpecCatmat == InitCatmat /\ [][NextCatmat]_vars

----------------------------------------------------------------------------
(* parseCatmatList *)

IsLineBreak(c) == c \in {LF, CR}

\* The positions at which a line of the text begins
LineStarts(raw) == {1} \cup {i + 1 : i \in {j \in DOMAIN raw : IsLineBreak(raw[j])}}

\* The first cell of the line that begins at position i: up to the first
\* tab or the end of the line
FirstCellAt(raw, i) ==
  LET stops == {j \in i .. Len(raw) : IsLineBreak(raw[j]) \/ raw[j] = TAB}
      end == IF stops = {} THEN Len(raw)
             ELSE (CHOOSE j \in stops : \A k \in stops : j <= k) - 1
  IN  SubSeq(raw, i, end)

\* A cell holds a code when it has a digit and nothing but digits and
\* blanks; every other line is a header or blank
HoldsCode(cell) ==
  /\ \E i \in DOMAIN cell : IsDigit(cell[i])
  /\ \A i \in DOMAIN cell : IsDigit(cell[i]) \/ cell[i] = " "

CodeOf(cell) == SelectSeq(cell, LAMBDA c : c # " ")

\* The codes of the lines from position i on, in the order of the lines,
\* without a code that is in seen
RECURSIVE CodesFrom(_, _, _)
CodesFrom(raw, i, seen) ==
  IF i > Len(raw) + 1 THEN <<>>
  ELSE IF i \notin LineStarts(raw) THEN CodesFrom(raw, i + 1, seen)
  ELSE LET cell == FirstCellAt(raw, i)
       IN  IF HoldsCode(cell) /\ CodeOf(cell) \notin seen
           THEN <<CodeOf(cell)>> \o CodesFrom(raw, i + 1, seen \cup {CodeOf(cell)})
           ELSE CodesFrom(raw, i + 1, seen)

ParsedCodes == [i \in DOMAIN catmat.parsed |-> catmat.parsed[i].catmat]

\* Only non-empty digit-only codes, none twice
CodesWellFormed ==
  /\ \A i \in DOMAIN ParsedCodes :
        ParsedCodes[i] # <<>> /\ \A k \in DOMAIN ParsedCodes[i] : IsDigit(ParsedCodes[i][k])
  /\ \A i, j \in DOMAIN ParsedCodes : ParsedCodes[i] = ParsedCodes[j] => i = j

\* C26: parseCatmatList gives the codes of the first cells of the lines
\* that hold a code, header lines and blank lines ignored, every code once
\* at its first occurrence and in the order of the text; the result holds
\* only non-empty digit-only codes.
C26_CatmatList ==
  /\ CodesWellFormed
  /\ ParsedCodes = CodesFrom(catmat.rawInput, 1, {})

\* The header line "a1" is not ignored: it gives the code 1
C26_Divergence ==
  /\ catmat.rawInput = <<"a", "1">>
  /\ ParsedCodes = <<<<"1">>>>

----------------------------------------------------------------------------
(* Hydration of the last prices *)

\* The step in which hydratePncpUltimo completes
HydrationCompletes == lp.pc = "hydrate" /\ lp'.pc = "idle"

\* What the user has typed since the preview was asked for: loadPreview
\* empties lastQuotes, so every entry present while the hydration runs was
\* typed
TypedKeepsItsValue ==
  \A id \in DOMAIN lastQuotes : Has(lastQuotes', id) /\ lastQuotes'[id] = lastQuotes[id]

OnlyUntypedAreFilled ==
  \A id \in DOMAIN lastQuotes' \ DOMAIN lastQuotes :
     /\ HasItem(lp.items, id)
     /\ \E price \in PagePrices : lastQuotes'[id] = fmtSmart_precos(price)

HydrationKeepsTyped ==
  (variant = "precos" /\ HydrationCompletes) => (TypedKeepsItsValue /\ OnlyUntypedAreFilled)

\* C27: when the hydration of precos completes, at whatever point between
\* the edits of the user, every item the user has typed a last price for
\* keeps exactly the typed text, and only items without an entry receive
\* the hydrated price.
C27_HydrationKeepsTyped == [][HydrationKeepsTyped]_vars

\* The user has typed 13 for item 1 while the hydration for the catmat of
\* that item is still running
C27_Witness ==
  /\ variant = "precos"
  /\ lp.pc = "hydrate"
  /\ HasItem(lp.items, "1")
  /\ Trim(FindItem(lp.items, "1").catmat) \in Catmats(lp.items)
  /\ Has(lastQuotes, "1")
  /\ lastQuotes["1"] = <<"1", "3">>

----------------------------------------------------------------------------
(* The preview and the chosen file *)

\* The preview is the one of the file now chosen
PreviewOfChosenFile == file # NoFile /\ preview = EncodeAll(variant, ItemsOf(file))

\* C28: in precos whatever is shown of a preview (its items, previewReady,
\* typed or hydrated last prices, stepPreviewDone) belongs to the file now
\* chosen: an answer that arrives after another file was chosen fills
\* nothing in.
C28_PreviewOfChosenFile ==
  (variant = "precos"
     /\ (preview # <<>> \/ previewReady \/ stepPreviewDone \/ lastQuotes # EmptyMap))
     => PreviewOfChosenFile

\* C.pdf is chosen, and the page shows as ready the preview of B.pdf, whose
\* answer arrived after the change
C28_Divergence ==
  /\ variant = "precos"
  /\ file = "C.pdf"
  /\ preview = EncodeAll(variant, ItemsOf("B.pdf"))
  /\ preview # EncodeAll(variant, ItemsOf("C.pdf"))
  /\ previewReady
  /\ stepPreviewDone
  /\ lp = Idle

----------------------------------------------------------------------------
(* One request at a time *)

\* A request is in flight exactly while its loading flag is set
FlagsFollowRequests ==
  /\ loadingPreview <=> lp.pc # "idle"
  /\ loadingGenerate <=> gen.pc # "idle"

\* A press of Gerar previa (of Gerar ZIP) that runs its handler finds no
\* request of its kind in flight
StartsOnlyWhenIdle ==
  /\ loadPreview => (~loadingPreview /\ lp.pc = "idle")
  /\ generateZip => (~loadingGenerate /\ gen.pc = "idle")

\* C29: in precos a preview request (a generate request) is started only
\* while none is in flight and its loading flag is false, the flag is set
\* exactly while the request is in flight, and after every start the flag
\* returns to false, whatever the outcome.
C29_OneRequestAtATime ==
  /\ []FlagsFollowRequests
  /\ [][StartsOnlyWhenIdle]_vars
  /\ (loadingPreview ~> ~loadingPreview)
  /\ (loadingGenerate ~> ~loadingGenerate)

\* Both requests are in flight at once, each with its flag set
C29_Witness ==
  /\ variant = "precos"
  /\ loadingPreview /\ lp.pc = "hydrate"
  /\ loadingGenerate /\ gen.pc = "generate"

----------------------------------------------------------------------------
(* What generateZip asks for before it sends *)

FormComplete ==
  /\ file # NoFile
  /\ preview # <<>>
  /\ \A f \in {"numeroLista", "nomeLista", "processoSEI", "responsavel"} : ~Blank(meta[f])

SendsGenerate == gen.pc = "idle" /\ gen'.pc = "generate"

OnlyStatusSet ==
  /\ status' \in {StatusSelecionePdf, StatusGereAPrevia, StatusGereAPreviaArquivos,
                  StatusPreenchaCampos, StatusPreenchaCamposLista}
  /\ UNCHANGED <<variant, file, loadingPreview, loadingGenerate, meta, preview, previewReady,
                 stepPreviewDone, lastQuotes, overrides, modal, lp, gen, rows>>
  /\ UNCHANGED siteVars

GenerateGuarded ==
  generateZipHandler =>
    /\ SendsGenerate => FormComplete
    /\ ~FormComplete => OnlyStatusSet

\* C30: generateZip sends a request to /api/generate only when a file is
\* chosen, the preview is non-empty and the list number, the list name, the
\* SEI process and the responsible are non-blank after trimming; when one of
\* these is missing it sets a status message and changes nothing else.
C30_GenerateGuarded == [][GenerateGuarded]_vars

\* page.tsx has sent the request of a form that names no responsible
C30_Divergence ==
  /\ variant = "root"
  /\ gen.pc = "generate" /\ loadingGenerate
  /\ status = StatusGerandoArquivos
  /\ Blank(meta.responsavel)

====
